---- MODULE Spec2Model ----
(***************************************************************************)
(* A model of the LLM-Secrets MCP server: the privacy detector             *)
(* (segmenter, scorer, classifier), the encryption manager (key file,      *)
(* AES-256-CBC encrypt/decrypt) and the storage manager (timestamp-named   *)
(* files, metadata, statistics), with the tool handlers that drive them.   *)
(*                                                                         *)
(* Text is a sequence of one-character strings; a byte is a number in      *)
(* 0..255; a file is a sequence of characters or bytes.                    *)
(***************************************************************************)
EXTENDS Integers, Sequences, FiniteSets, TLC

VARIABLES
    privacyConfig,     \* PrivacyDetector.config: thresholds and customPatterns
    privacyPatterns,   \* PrivacyDetector.privacyPatterns (compiled regexes)
    detectorReady,     \* PrivacyDetector.initialize() has run
    request,           \* the text the caller passes to the detector
    lastCall,          \* the operation that ran last; a behaviour follows one request
    lastText,          \* args.text of the last analyze_privacy call
    lastAnalysis,      \* result of its processOutput call
    lastResponse,      \* ToolResult of the last analyze_privacy call
    patternLastIndex,  \* lastIndex of each RegExp in privacyPatterns
    classifyLog        \* the processOutput calls so far: text and result

privacyVars == <<privacyConfig, privacyPatterns, detectorReady, request, lastCall,
                 lastText, lastAnalysis, lastResponse, patternLastIndex, classifyLog>>

VARIABLES
    keySize,           \* EncryptionConfig.keySize
    keyFile,           \* the file at EncryptionConfig.keyFile
    pc,                \* per manager: where its initialize() stands
    key,               \* per manager: EncryptionManager.key
    newKey,            \* per manager: the generated key loadOrCreateKey is writing
    initLog,           \* the initialize() runs that returned, in order
    plain,             \* the data the caller passes to encrypt
    encLog,            \* the encrypt calls, in order, with their outcome
    lastDecrypt,       \* the last decrypt call with its outcome
    lastKeyInfo        \* what the last getKeyInfo call returned

keyVars == <<keySize, keyFile, pc, key, newKey, initLog>>
cipherVars == <<plain, encLog, lastDecrypt, lastKeyInfo>>

VARIABLES
    now,               \* the clock, in milliseconds: Date.now()
    baseWritable,      \* whether mkdir of StorageManager.privateDir can succeed
    diskFull,          \* whether writeFile fails with ENOSPC
    privateDirExists,  \* whether the directory StorageManager.privateDir exists
    files,             \* the files of privateDir: name -> content and mtime
    storageReady,      \* StorageManager.initialize() has returned
    saving,            \* per caller: the saveEncryptedThought call under way
    saveLog            \* the saveEncryptedThought calls that settled, in order

storageVars == <<now, baseWritable, diskFull, privateDirExists, files, storageReady, saving,
                 saveLog>>

VARIABLES
    listing,           \* the getThoughtMetadata call under way
    lastList,          \* what the last getThoughtMetadata call returned
    lastStats          \* what the last getStorageStats call returned

readVars == <<listing, lastList, lastStats>>

VARIABLES
    serverPc,          \* where startServer stands
    exitStatus,        \* the status process.exit was called with
    processing         \* the process_response call: where it stands, its result

serverVars == <<serverPc, exitStatus, processing>>

vars == <<privacyVars, keyVars, cipherVars, storageVars, readVars, serverVars>>

-----------------------------------------------------------------------------
(* Characters and strings                                                  *)

Chars(s) == [i \in 1..Len(s) |-> SubSeq(s, i, i)]

UpperLetters == Chars("ABCDEFGHIJKLMNOPQRSTUVWXYZ")
LowerLetters == Chars("abcdefghijklmnopqrstuvwxyz")
Digits == Chars("0123456789")

\* Canonical case folding of the 'i' flag for the ASCII letters.
LowerOf ==
    [c \in {UpperLetters[i] : i \in 1..Len(UpperLetters)} |->
        LowerLetters[CHOOSE i \in 1..Len(UpperLetters) : UpperLetters[i] = c]]

ToLower(c) == IF c \in DOMAIN LowerOf THEN LowerOf[c] ELSE c

LowerStr(s) == [i \in 1..Len(s) |-> ToLower(s[i])]

\* The characters \s matches, among those the model's texts use.
IsSpace(c) == c \in {" ", "\n", "\t", "\r"}

\* The characters \w matches.
WordChars ==
    {UpperLetters[i] : i \in 1..Len(UpperLetters)} \cup
    {LowerLetters[i] : i \in 1..Len(LowerLetters)} \cup
    {Digits[i] : i \in 1..Len(Digits)} \cup {"_"}

IsWordChar(c) == c \in WordChars

SetMax(S) == CHOOSE m \in S : \A x \in S : x <= m

RECURSIVE TrimLeft(_)
TrimLeft(s) ==
    IF s # <<>> /\ IsSpace(Head(s)) THEN TrimLeft(Tail(s)) ELSE s

RECURSIVE TrimRight(_)
TrimRight(s) ==
    IF s # <<>> /\ IsSpace(s[Len(s)])
    THEN TrimRight(SubSeq(s, 1, Len(s) - 1))
    ELSE s

\* String.prototype.trim
Trim(s) == TrimRight(TrimLeft(s))

\* String.prototype.slice(0, n)
SliceTo(s, n) == SubSeq(s, 1, IF Len(s) < n THEN Len(s) ELSE n)

\* Array.prototype.join(sep)
RECURSIVE JoinWith(_, _)
JoinWith(parts, sep) ==
    IF parts = <<>> THEN <<>>
    ELSE IF Len(parts) = 1 THEN parts[1]
    ELSE parts[1] \o sep \o JoinWith(Tail(parts), sep)

\* s contains p as a plain substring, compared without regard to case.
ContainsCI(s, p) ==
    \E i \in 1..(Len(s) - Len(p) + 1) :
        LowerStr(SubSeq(s, i, i + Len(p) - 1)) = LowerStr(p)

-----------------------------------------------------------------------------
(* Regular expressions (the JavaScript RegExp forms the program uses).     *)
(* A compiled regex is a tree; Ends(r, s, i) is the set of positions at    *)
(* which a match of r that starts at position i of s can end.  Every regex *)
(* of the program that contains a letter carries the 'i' flag: a literal   *)
(* is kept in lower case and the subject is folded to lower case before    *)
(* matching.                                                               *)

Str(w) == [t |-> "str", w |-> LowerStr(Chars(w))]
Lit(c) == [t |-> "str", w |-> <<ToLower(c)>>]
AnyChar == [t |-> "any"]
Space == [t |-> "ws"]
WordBoundary == [t |-> "wb"]
LineStart == [t |-> "bol"]
LineEnd == [t |-> "eol"]
After(cs) == [t |-> "after", cs |-> cs]
Cat(rs) == [t |-> "cat", rs |-> rs]
Alt(rs) == [t |-> "alt", rs |-> rs]
Plus(r) == [t |-> "plus", r |-> r]
Star(r) == [t |-> "star", r |-> r]
Opt(r) == [t |-> "opt", r |-> r]
\* (w1|w2|...): an alternation of literals.
Words(ws) ==
    [t |-> "words",
     ws |-> {LowerStr(Chars(ws[i])) : i \in 1..Len(ws)},
     lens |-> {Len(ws[i]) : i \in 1..Len(ws)}]

AtWordBoundary(s, i) ==
    LET before == i > 1 /\ IsWordChar(s[i - 1])
        after == i <= Len(s) /\ IsWordChar(s[i])
    IN  before # after

RECURSIVE Ends(_, _, _)
RECURSIVE EndsCat(_, _, _, _)
RECURSIVE EndsRepeat(_, _, _, _)

Ends(r, s, i) ==
    CASE r.t = "str" ->
            IF i + Len(r.w) - 1 <= Len(s) /\ SubSeq(s, i, i + Len(r.w) - 1) = r.w
            THEN {i + Len(r.w)} ELSE {}
      [] r.t = "words" ->
            {i + n : n \in {m \in r.lens : i + m - 1 <= Len(s) /\ SubSeq(s, i, i + m - 1) \in r.ws}}
      [] r.t = "any" -> IF i <= Len(s) /\ s[i] \notin {"\n", "\r"} THEN {i + 1} ELSE {}
      [] r.t = "ws" -> IF i <= Len(s) /\ IsSpace(s[i]) THEN {i + 1} ELSE {}
      [] r.t = "wb" -> IF AtWordBoundary(s, i) THEN {i} ELSE {}
      [] r.t = "bol" -> IF i = 1 THEN {i} ELSE {}
      [] r.t = "eol" -> IF i = Len(s) + 1 THEN {i} ELSE {}
      [] r.t = "after" -> IF i > 1 /\ s[i - 1] \in r.cs THEN {i} ELSE {}
      [] r.t = "cat" -> EndsCat(r.rs, 1, s, {i})
      [] r.t = "alt" -> UNION {Ends(r.rs[k], s, i) : k \in 1..Len(r.rs)}
      [] r.t = "plus" -> EndsRepeat(r.r, s, Ends(r.r, s, i), {})
      [] r.t = "star" -> {i} \cup EndsRepeat(r.r, s, Ends(r.r, s, i), {})
      [] r.t = "opt" -> {i} \cup Ends(r.r, s, i)

EndsCat(rs, k, s, starts) ==
    IF k > Len(rs) \/ starts = {} THEN starts
    ELSE EndsCat(rs, k + 1, s, UNION {Ends(rs[k], s, j) : j \in starts})

EndsRepeat(r, s, frontier, acc) ==
    IF frontier \subseteq acc THEN acc
    ELSE EndsRepeat(r, s,
                    UNION {Ends(r, s, j) : j \in frontier \ acc} \ (frontier \cup acc),
                    acc \cup frontier)

\* RegExp.prototype.test without the 'g' flag: a match starting anywhere.
RegexTest(r, s) ==
    LET folded == LowerStr(s)
    IN  \E i \in 1..(Len(s) + 1) : Ends(r, folded, i) # {}

\* The match the engine reports at a position is the longest one (SetMax of
\* the ends): the quantifiers of the program's regexes are greedy, and the
\* alternatives of its counted regexes end at a word boundary.

\* The positions of s at which a match of r starts.
MatchStarts(r, s) == {i \in 1..(Len(s) + 1) : Ends(r, s, i) # {}}

SetMin(S) == CHOOSE m \in S : \A x \in S : m <= x

\* String.prototype.match with the 'g' flag: the number of successive
\* non-overlapping matches, found from position i on.
RECURSIVE CountFrom(_, _, _, _)
CountFrom(r, s, starts, i) ==
    LET later == {q \in starts : q >= i}
        q == SetMin(later)
        e == SetMax(Ends(r, s, q))
    IN  IF later = {} THEN 0
        ELSE 1 + CountFrom(r, s, starts, IF e = q THEN q + 1 ELSE e)

CountMatches(r, s) ==
    LET folded == LowerStr(s)
    IN  CountFrom(r, folded, MatchStarts(r, folded), 1)

\* String.prototype.split(separator regex): p is the start of the current
\* piece; the next separator is the first match at q >= p, q within s,
\* that does not end at p.
RECURSIVE SplitFrom(_, _, _, _)
SplitFrom(r, s, starts, p) ==
    LET later == {q \in starts : q >= p /\ q <= Len(s) /\ SetMax(Ends(r, s, q)) # p}
        q == SetMin(later)
        e == SetMax(Ends(r, s, q))
    IN  IF later = {} THEN <<SubSeq(s, p, Len(s))>>
        ELSE <<SubSeq(s, p, q - 1)>> \o SplitFrom(r, s, starts, e)

RegexSplit(r, s) == IF s = <<>> THEN <<s>> ELSE SplitFrom(r, s, MatchStarts(r, s), 1)

-----------------------------------------------------------------------------
(* Rational numbers: the scores and thresholds are fractions n/d, d > 0,   *)
(* compared exactly.                                                       *)

Rat(n, d) == [n |-> n, d |-> d]
RatGreater(a, b) == a.n * b.d > b.n * a.d
RatEqual(a, b) == a.n * b.d = b.n * a.d
\* The quotient without the cap.
Uncapped(n, d) == Rat(n, d)

\* Math.min(1.0, n/d)
MinOne(n, d) == IF n >= d THEN Rat(1, 1) ELSE Rat(n, d)

-----------------------------------------------------------------------------
(* PrivacyDetector                                                         *)

DEFAULT_PRIVACY_INDICATORS == <<
    Words(<<"private", "secret", "confidential", "personal", "sensitive">>),
    Cat(<<Words(<<"don't", "do not", "shouldn't", "should not", "wouldn't", "would not">>),
          Plus(Space), Words(<<"share", "tell", "reveal", "disclose">>)>>),
    Cat(<<Words(<<"between", "just", "only">>), Plus(Space),
          Words(<<"us", "ourselves", "me and you">>)>>),
    Cat(<<Str("keep"), Plus(Space), Str("this"), Plus(Space),
          Alt(<<Cat(<<Str("to"), Plus(Space), Str("yourself")>>),
                Str("private"), Str("secret"), Str("confidential")>>)>>),
    Cat(<<Words(<<"internal", "introspective", "inner">>), Plus(Space),
          Words(<<"thought", "reflection", "monologue", "dialogue">>)>>),
    Cat(<<Words(<<"nobody", "no one">>), Plus(Space), Str("should"), Plus(Space),
          Words(<<"know", "hear", "see", "read">>)>>),
    Cat(<<Str("if"), Plus(Space), Str("I'm"), Plus(Space), Str("being"),
          Plus(Space), Str("honest")>>),
    Cat(<<Str("I"), Plus(Space),
          Words(<<"wouldn't", "won't", "can't", "cannot", "don't">>), Plus(Space),
          Words(<<"say", "admit", "acknowledge">>), Plus(Space), Str("this"),
          Plus(Space), Words(<<"publicly", "openly">>)>>)
>>

\* The characters of the class [.*+?^${}()|[\]\\].
RegexSpecialChars == {".", "*", "+", "?", "^", "$", "{", "}", "(", ")", "|", "[", "]", "\\"}

\* pattern.replace(/[.*+?^${}()|[\]\\]/g, '\\$&'): every special character
\* gets a backslash in front.  At(i) is the place of p[i] in the result.
EscapeRegex(p) ==
    LET special(i) == p[i] \in RegexSpecialChars
        At(i) == i + Cardinality({k \in 1..i : special(k)})
        n == IF p = <<>> THEN 0 ELSE At(Len(p))
    IN  [k \in 1..n |->
            IF \E i \in 1..Len(p) : At(i) = k
            THEN p[CHOOSE i \in 1..Len(p) : At(i) = k]
            ELSE "\\"]

\* new RegExp(source, 'i'): the source is a sequence of atoms, each with an
\* optional quantifier.  An atom is a literal character, '.', '^', '$',
\* '\s', '\b' or an escaped character standing for itself.  ok = FALSE is
\* the SyntaxError of the constructor: a quantifier with nothing to repeat,
\* a trailing backslash, an invalid group such as "(?i)".  Groups,
\* alternation and classes are not compiled: the sources the model compiles
\* hold them only escaped, or form the invalid group "(?i)".
ParseAtoms(src) ==
    LET \* the backslashes directly in front of position i
        Run(i) == Cardinality({k \in 1..(i - 1) :
                      \A m \in k..(i - 1) : src[m] = "\\"})
        Escaped(i) == Run(i) % 2 = 1
        Quantifier(i) == ~Escaped(i) /\ src[i] \in {"*", "+", "?"}
        \* an atom is an escape pair or one unescaped character
        AtomAt(i) == ~Escaped(i) /\ ~Quantifier(i)
        starts == {i \in 1..Len(src) : AtomAt(i)}
        bad == \/ \E i \in starts : src[i] \in {"(", ")", "[", "|"}
               \/ \E i \in starts : src[i] = "\\" /\ i = Len(src)
               \/ \E i \in 1..Len(src) :
                      Quantifier(i) /\ (i = 1 \/ Quantifier(i - 1))
        Atom(i) == IF src[i] = "\\"
                   THEN (IF src[i + 1] = "s" THEN Space
                         ELSE IF src[i + 1] = "b" THEN WordBoundary
                         ELSE Lit(src[i + 1]))
                   ELSE IF src[i] = "." THEN AnyChar
                   ELSE IF src[i] = "^" THEN LineStart
                   ELSE IF src[i] = "$" THEN LineEnd
                   ELSE Lit(src[i])
        Width(i) == IF src[i] = "\\" THEN 2 ELSE 1
        Node(i) == LET q == i + Width(i)
                   IN  IF q <= Len(src) /\ Quantifier(q)
                       THEN (IF src[q] = "+" THEN Plus(Atom(i))
                             ELSE IF src[q] = "*" THEN Star(Atom(i))
                             ELSE Opt(Atom(i)))
                       ELSE Atom(i)
        Nth(n) == CHOOSE i \in starts : Cardinality({j \in starts : j < i}) = n - 1
    IN  IF bad THEN [ok |-> FALSE, rs |-> <<>>]
        ELSE [ok |-> TRUE, rs |-> [n \in 1..Cardinality(starts) |-> Node(Nth(n))]]

NewRegExp(src) ==
    LET parsed == ParseAtoms(src)
    IN  [ok |-> parsed.ok, re |-> Cat(parsed.rs)]

\* The loop body of initialize(): escape, compile, push; a pattern whose
\* compilation throws is skipped with a warning.
CompileNoEscape(pattern) == NewRegExp(pattern)
CompileCustomPattern(pattern) == NewRegExp(EscapeRegex(pattern))

RECURSIVE CompileCustomPatterns(_)
CompileCustomPatterns(patterns) ==
    IF patterns = <<>> THEN <<>>
    ELSE LET c == CompileCustomPattern(Head(patterns))
         IN  (IF c.ok THEN <<c.re>> ELSE <<>>) \o CompileCustomPatterns(Tail(patterns))

\* PrivacyDetector.initialize: the value of privacyPatterns afterwards.
InitialPatterns(config) ==
    DEFAULT_PRIVACY_INDICATORS \o CompileCustomPatterns(config.customPatterns)

\* splitIntoSegments: paragraphs at /\n\s*\n/, a paragraph longer than
\* LongSegmentLimit at /(?<=[.!?])\s+/, then trim and drop the empty pieces.
LongSegmentLimit == 500
ParagraphBreak == Cat(<<Lit("\n"), Star(Space), Lit("\n")>>)
SentenceBreak == Cat(<<After({".", "!", "?"}), Plus(Space)>>)

\* A loop that splits every paragraph at its sentence ends, whatever its
\* length.
RECURSIVE SplitEvery(_)
SplitEvery(paragraphs) ==
    IF paragraphs = <<>> THEN <<>>
    ELSE RegexSplit(SentenceBreak, Head(paragraphs)) \o SplitEvery(Tail(paragraphs))

RECURSIVE SplitLong(_)
SplitLong(paragraphs) ==
    IF paragraphs = <<>> THEN <<>>
    ELSE (IF Len(Trim(Head(paragraphs))) > LongSegmentLimit
          THEN RegexSplit(SentenceBreak, Head(paragraphs))
          ELSE <<Head(paragraphs)>>)
         \o SplitLong(Tail(paragraphs))

RECURSIVE TrimAndFilter(_)
TrimAndFilter(parts) ==
    IF parts = <<>> THEN <<>>
    ELSE (IF Len(Trim(Head(parts))) > 0 THEN <<Trim(Head(parts))>> ELSE <<>>)
         \o TrimAndFilter(Tail(parts))

splitIntoSegments(text) == TrimAndFilter(SplitLong(RegexSplit(ParagraphBreak, text)))

\* text.split(/\s+/).length
WordCount(text) == Len(RegexSplit(Plus(Space), text))

WholeWords(ws) == Cat(<<WordBoundary, Words(ws), WordBoundary>>)

FirstPersonRe == WholeWords(<<"I", "me", "my", "mine", "myself">>)
ThinkingVerbsRe ==
    WholeWords(<<"think", "feel", "believe", "wonder", "question", "doubt", "reflect">>)
UncertaintyRe ==
    WholeWords(<<"maybe", "perhaps", "possibly", "might", "could be", "uncertain", "unsure">>)

\* indicators / (wordCount * 0.3), capped at 1
calculateIntrospectionScore(text) ==
    LET firstPerson == CountMatches(FirstPersonRe, text)
        thinkingVerbs == CountMatches(ThinkingVerbsRe, text)
        uncertainty == CountMatches(UncertaintyRe, text)
        wordCount == WordCount(text)
        introspectionIndicators == firstPerson + thinkingVerbs + uncertainty
    IN  IF wordCount = 0 THEN Rat(0, 1)
        ELSE MinOne(10 * introspectionIndicators, 3 * wordCount)

sensitiveTopics == <<
    WholeWords(<<"controversial", "controversy", "contentious", "dispute", "disagreement">>),
    WholeWords(<<"personal", "private", "intimate", "secret">>),
    WholeWords(<<"worry", "concern", "afraid", "fear", "anxious", "anxiety">>),
    WholeWords(<<"critique", "criticism", "critical", "flaw", "weakness", "shortcoming">>)
>>
CautionPhrasesRe ==
    WholeWords(<<"careful", "cautious", "warning", "between us", "not for", "hesitant">>)

RECURSIVE SumMatches(_, _)
SumMatches(res, text) ==
    IF res = <<>> THEN 0
    ELSE CountMatches(Head(res), text) + SumMatches(Tail(res), text)

\* indicators / (wordCount * 0.25), capped at 1
calculateSensitivityScore(text) ==
    LET topicMentions == SumMatches(sensitiveTopics, text)
        cautionPhrases == CountMatches(CautionPhrasesRe, text)
        wordCount == WordCount(text)
        sensitivityIndicators == topicMentions + cautionPhrases * 2
    IN  IF wordCount = 0 THEN Rat(0, 1)
        ELSE MinOne(4 * sensitivityIndicators, wordCount)

\* The comparison of a score with its threshold.
ScoreAtLeast(score, threshold) == ~RatGreater(threshold, score)
ScoreExceeds(score, threshold) == RatGreater(score, threshold)

\* The flags of every RegExp in privacyPatterns, and the same with 'g'.
GlobalIndicatorFlags == <<"g", "i">>
IndicatorFlags == <<"i">>

\* RegExp.prototype.test on a RegExp whose lastIndex is from: with the 'g'
\* or 'y' flag the search starts at lastIndex and lastIndex becomes the end
\* of the match, or 0 when there is none; without them the search starts at
\* 0 and lastIndex is neither read nor written.
RegExpTest(re, flags, from, s) ==
    IF \E k \in 1..Len(flags) : flags[k] \in {"g", "y"}
    THEN CHOOSE out \in
           {IF starts = {} THEN [found |-> FALSE, lastIndex |-> 0]
            ELSE [found |-> TRUE,
                  lastIndex |-> SetMax(Ends(re, LowerStr(s), SetMin(starts))) - 1] :
              starts \in {{i \in (from + 1)..(Len(s) + 1) :
                              Ends(re, LowerStr(s), i) # {}}}} : TRUE
    ELSE [found |-> RegexTest(re, s), lastIndex |-> from]

\* The loop over privacyPatterns at the head of isLikelyPrivate, from the
\* k-th pattern on: it stops at the first pattern that matches.
RECURSIVE TestPatterns(_, _, _, _)
TestPatterns(patterns, idx, k, text) ==
    IF k > Len(patterns) THEN [found |-> FALSE, idx |-> idx]
    ELSE CHOOSE out \in
           {IF t.found THEN [found |-> TRUE, idx |-> [idx EXCEPT ![k] = t.lastIndex]]
            ELSE TestPatterns(patterns, [idx EXCEPT ![k] = t.lastIndex], k + 1, text) :
              t \in {RegExpTest(patterns[k], IndicatorFlags, idx[k], text)}} : TRUE

MatchesAnyPattern(patterns, text) ==
    \E k \in 1..Len(patterns) : RegexTest(patterns[k], text)

\* isLikelyPrivate, given whether its loop over the patterns found a match.
isLikelyPrivate(found, config, introspectionScore, sensitivityScore) ==
    \/ found
    \/ ScoreExceeds(introspectionScore, config.introspectionThreshold)
    \/ ScoreExceeds(sensitivityScore, config.sensitivityThreshold)

\* obj[key] = value on an object whose keys are not array indices: a new
\* key goes last, an existing key keeps its place.
SetKey(obj, name, value) ==
    IF \E k \in 1..Len(obj) : obj[k].key = name
    THEN [k \in 1..Len(obj) |->
            IF obj[k].key = name THEN [key |-> name, value |-> value] ELSE obj[k]]
    ELSE Append(obj, [key |-> name, value |-> value])

ScoreKeyLen == 30
\* segment.slice(0, 30) + '...'
ScoreKey(segment) == SliceTo(segment, ScoreKeyLen) \o Chars("...")

\* A loop body whose push to publicSegments is not in an else branch.
AnalyzeSegmentNoElse(found, config, segment, acc, introspectionScore, sensitivityScore) ==
    LET private == isLikelyPrivate(found, config, introspectionScore, sensitivityScore)
    IN  [publicSegments |-> Append(acc.publicSegments, segment),
         privateThoughts |->
            IF private THEN Append(acc.privateThoughts, segment)
            ELSE acc.privateThoughts,
         introspectionScores |->
            SetKey(acc.introspectionScores, ScoreKey(segment), introspectionScore),
         sensitivityScores |->
            SetKey(acc.sensitivityScores, ScoreKey(segment), sensitivityScore)]

\* The body of processOutput's loop for one segment, given its two scores.
AnalyzeSegment(found, config, segment, acc, introspectionScore, sensitivityScore) ==
    LET private == isLikelyPrivate(found, config, introspectionScore, sensitivityScore)
    IN  [publicSegments |->
            IF private THEN acc.publicSegments
            ELSE Append(acc.publicSegments, segment),
         privateThoughts |->
            IF private THEN Append(acc.privateThoughts, segment)
            ELSE acc.privateThoughts,
         introspectionScores |->
            SetKey(acc.introspectionScores, ScoreKey(segment), introspectionScore),
         sensitivityScores |->
            SetKey(acc.sensitivityScores, ScoreKey(segment), sensitivityScore)]

\* The loop of processOutput over the segments from the k-th on; idx is
\* the lastIndex of each pattern.  Each iteration's scores, pattern tests
\* and accumulator are computed once and then named, as the code's const
\* declarations do.
RECURSIVE AnalyzeSegments(_, _, _, _, _, _)
AnalyzeSegments(patterns, idx, config, segments, k, acc) ==
    IF k > Len(segments) THEN [done |-> acc, idx |-> idx]
    ELSE CHOOSE out \in UNION
           {{AnalyzeSegments(patterns, t.idx, config, segments, k + 1, next) :
               next \in {AnalyzeSegment(t.found, config, segments[k], acc, i, s)}} :
              i \in {calculateIntrospectionScore(segments[k])},
              s \in {calculateSensitivityScore(segments[k])},
              t \in {TestPatterns(patterns, idx, 1, segments[k])}} : TRUE

NoSegments ==
    [publicSegments |-> <<>>, privateThoughts |-> <<>>,
     introspectionScores |-> <<>>, sensitivityScores |-> <<>>]

\* The result object processOutput returns after its loop.
PrivacyAnalysis(done) ==
    [publicOutput |-> JoinWith(done.publicSegments, <<" ">>),
     privateThoughts |-> done.privateThoughts,
     scores |-> [introspectionScores |-> done.introspectionScores,
                 sensitivityScores |-> done.sensitivityScores]]

\* processOutput's result, and the lastIndex of each pattern afterwards.
processOutput(patterns, idx, config, text) ==
    CHOOSE out \in
      {[result |-> PrivacyAnalysis(loop.done), lastIndex |-> loop.idx] :
         loop \in {AnalyzeSegments(patterns, idx, config, segments, 1, NoSegments) :
                     segments \in {splitIntoSegments(text)}}} : TRUE

-----------------------------------------------------------------------------
(* Tool handlers                                                           *)

SampleSize == 3
\* Object.entries(scores).slice(0, 3).reduce(...)
ScoresSample(scores) == SubSeq(scores, 1, IF Len(scores) < SampleSize THEN Len(scores) ELSE SampleSize)

\* handleAnalyzePrivacy: the ToolResult built from the result of processOutput.
analyzePrivacyResponse(result) ==
    [isError |-> FALSE,
     publicOutput |-> result.publicOutput,
     privateThoughtsCount |-> Len(result.privateThoughts),
     privacyDetected |-> Len(result.privateThoughts) > 0,
     introspectionScoresSample |-> ScoresSample(result.scores.introspectionScores),
     sensitivityScoresSample |-> ScoresSample(result.scores.sensitivityScores)]

\* The ToolResult of the catch block.
ErrorResponse(message) == [isError |-> TRUE, message |-> message]

-----------------------------------------------------------------------------
(* Bytes, base64 and UTF-8                                                 *)

Pow2(n) == IF n = 0 THEN 1 ELSE IF n = 1 THEN 2 ELSE IF n = 2 THEN 4
           ELSE IF n = 3 THEN 8 ELSE IF n = 4 THEN 16 ELSE IF n = 5 THEN 32
           ELSE IF n = 6 THEN 64 ELSE 128

Bit(a, n) == (a \div Pow2(n)) % 2

\* a ^ b on bytes
Xor(a, b) ==
    LET d(n) == IF Bit(a, n) = Bit(b, n) THEN 0 ELSE Pow2(n)
    IN  d(0) + d(1) + d(2) + d(3) + d(4) + d(5) + d(6) + d(7)

Base64Alphabet ==
    Chars("ABCDEFGHIJKLMNOPQRSTUVWXYZabcdefghijklmnopqrstuvwxyz0123456789+/")

\* Buffer.prototype.toString('base64')
Base64Encode(bytes) ==
    LET n == Len(bytes)
        at(i) == IF i <= n THEN bytes[i] ELSE 0
        group(g) == at(3 * g + 1) * 65536 + at(3 * g + 2) * 256 + at(3 * g + 3)
        sextet(g, j) == (group(g) \div (IF j = 0 THEN 262144 ELSE IF j = 1 THEN 4096
                                        ELSE IF j = 2 THEN 64 ELSE 1)) % 64
        \* the bytes of group g that exist
        have(g) == IF n - 3 * g >= 3 THEN 3 ELSE n - 3 * g
    IN  [k \in 1..(4 * ((n + 2) \div 3)) |->
            LET g == (k - 1) \div 4
                j == (k - 1) % 4
            IN  IF j > have(g) THEN "=" ELSE Base64Alphabet[sextet(g, j) + 1]]

Base64Value(c) == (CHOOSE i \in 1..Len(Base64Alphabet) : Base64Alphabet[i] = c) - 1
IsBase64Char(c) == \E i \in 1..Len(Base64Alphabet) : Base64Alphabet[i] = c

\* Buffer.from(text, 'base64'): characters outside the alphabet are skipped,
\* decoding stops at the first '=', and a trailing partial byte is dropped.
Base64Decode(text) ==
    LET stop == IF \E i \in 1..Len(text) : text[i] = "="
                THEN SetMin({i \in 1..Len(text) : text[i] = "="})
                ELSE Len(text) + 1
        used == {i \in 1..(stop - 1) : IsBase64Char(text[i])}
        m == Cardinality(used)
        nth(a) == CHOOSE i \in used : Cardinality({j \in used : j < i}) = a - 1
        s(a) == Base64Value(text[nth(a)])
    IN  [k \in 1..((m * 6) \div 8) |->
            LET o == 8 * (k - 1)
                a == (o \div 6) + 1
                r == o % 6
            IN  ((s(a) * 64 + s(a + 1)) \div Pow2(4 - r)) % 256]

\* The code points of the surrogate range: in a string, a lone surrogate.
IsSurrogate(cp) == cp >= 55296 /\ cp <= 57343
ReplacementChar == 65533

\* Buffer.from(string, 'utf-8') for one code point; a lone surrogate is
\* encoded as U+FFFD.
Utf8Bytes(cp) ==
    IF cp < 128 THEN <<cp>>
    ELSE IF cp < 2048 THEN <<192 + (cp \div 64), 128 + (cp % 64)>>
    ELSE IF IsSurrogate(cp) THEN <<239, 191, 189>>
    ELSE IF cp < 65536
         THEN <<224 + (cp \div 4096), 128 + ((cp \div 64) % 64), 128 + (cp % 64)>>
    ELSE <<240 + (cp \div 262144), 128 + ((cp \div 4096) % 64),
           128 + ((cp \div 64) % 64), 128 + (cp % 64)>>

RECURSIVE Utf8Encode(_)
Utf8Encode(str) ==
    IF str = <<>> THEN <<>> ELSE Utf8Bytes(Head(str)) \o Utf8Encode(Tail(str))

\* Buffer.prototype.toString('utf-8'): an ill-formed sequence decodes to
\* U+FFFD and decoding resumes after its longest well-formed prefix.
RECURSIVE Utf8DecodeFrom(_, _)
Utf8DecodeFrom(bytes, i) ==
    IF i > Len(bytes) THEN <<>>
    ELSE
      LET b == bytes[i]
          need == IF b >= 194 /\ b <= 223 THEN 1
                  ELSE IF b >= 224 /\ b <= 239 THEN 2
                  ELSE IF b >= 240 /\ b <= 244 THEN 3
                  ELSE 0
          lo == IF b = 224 THEN 160 ELSE IF b = 240 THEN 144 ELSE 128
          hi == IF b = 237 THEN 159 ELSE IF b = 244 THEN 143 ELSE 191
          contOk(k) == /\ i + k <= Len(bytes)
                       /\ bytes[i + k] >= (IF k = 1 THEN lo ELSE 128)
                       /\ bytes[i + k] <= (IF k = 1 THEN hi ELSE 191)
          good == Cardinality({k \in 1..need : \A j \in 1..k : contOk(j)})
          lead == IF need = 1 THEN b - 192 ELSE IF need = 2 THEN b - 224 ELSE b - 240
          cp == IF need = 1 THEN lead * 64 + (bytes[i + 1] - 128)
                ELSE IF need = 2
                     THEN lead * 4096 + (bytes[i + 1] - 128) * 64 + (bytes[i + 2] - 128)
                ELSE lead * 262144 + (bytes[i + 1] - 128) * 4096
                     + (bytes[i + 2] - 128) * 64 + (bytes[i + 3] - 128)
      IN  IF b < 128 THEN <<b>> \o Utf8DecodeFrom(bytes, i + 1)
          ELSE IF need = 0 THEN <<ReplacementChar>> \o Utf8DecodeFrom(bytes, i + 1)
          ELSE IF good = need THEN <<cp>> \o Utf8DecodeFrom(bytes, i + 1 + need)
          ELSE <<ReplacementChar>> \o Utf8DecodeFrom(bytes, i + 1 + good)

Utf8Decode(bytes) == Utf8DecodeFrom(bytes, 1)

-----------------------------------------------------------------------------
(* EncryptionManager: the cipher                                           *)

IVLength == 16
BlockSize == IVLength
CipherKeyBits == 256
CipherKeyLength == CipherKeyBits \div 8

\* The block cipher is a keyed permutation of 16-byte blocks; which one is
\* immaterial here, only that the key selects it and BlockDecrypt undoes it.
BlockEncrypt(k, b) ==
    [i \in 1..BlockSize |-> (Xor(b[(i % BlockSize) + 1], k[i]) + k[BlockSize + i]) % 256]

BlockDecrypt(k, c) ==
    [j \in 1..BlockSize |->
        LET i == IF j = 1 THEN BlockSize ELSE j - 1
        IN  Xor((c[i] + 256 - k[BlockSize + i]) % 256, k[i])]

XorBlock(a, b) == [i \in 1..BlockSize |-> Xor(a[i], b[i])]

\* PKCS#7: always pads, with n bytes of value n.
Pkcs7Pad(data) ==
    LET n == BlockSize - (Len(data) % BlockSize)
    IN  data \o [i \in 1..n |-> n]

Pkcs7Ok(padded) ==
    /\ Len(padded) > 0
    /\ LET n == padded[Len(padded)]
       IN  /\ n >= 1
           /\ n <= BlockSize
           /\ \A i \in (Len(padded) - n + 1)..Len(padded) : padded[i] = n

Pkcs7Unpad(padded) == SubSeq(padded, 1, Len(padded) - padded[Len(padded)])

RECURSIVE CbcEncrypt(_, _, _)
CbcEncrypt(k, prev, data) ==
    IF data = <<>> THEN <<>>
    ELSE LET c == BlockEncrypt(k, XorBlock(SubSeq(data, 1, BlockSize), prev))
         IN  c \o CbcEncrypt(k, c, SubSeq(data, BlockSize + 1, Len(data)))

RECURSIVE CbcDecrypt(_, _, _)
CbcDecrypt(k, prev, ct) ==
    IF ct = <<>> THEN <<>>
    ELSE LET c == SubSeq(ct, 1, BlockSize)
         IN  XorBlock(BlockDecrypt(k, c), prev)
               \o CbcDecrypt(k, c, SubSeq(ct, BlockSize + 1, Len(ct)))

\* crypto.createCipheriv('aes-256-cbc', key, iv) throws unless the key is 32
\* bytes and the IV 16.
CipherAccepts(k, iv) == Len(k) = CipherKeyLength /\ Len(iv) = IVLength

Failure(code) == [ok |-> FALSE, code |-> code]

\* The ciphertext alone.
CiphertextOnly(iv, ciphertext) == ciphertext

\* What encrypt returns: the IV followed by the ciphertext.
EncryptedBlob(iv, ciphertext) == iv \o ciphertext

\* A manager without the guard.
KeyNeverMissing(k) == FALSE

\* this.key.length === 0: the manager holds the empty buffer it was built with.
KeyMissing(k) == Len(k) = 0

\* encrypt(data), with iv the value crypto.randomBytes(16) returned.  data is
\* [kind |-> "string", val |-> code points] or [kind |-> "buffer", val |-> bytes].
encrypt(k, data, iv) ==
    IF KeyMissing(k) THEN Failure("ENCRYPTION_KEY_NOT_INITIALIZED")
    ELSE LET dataBuffer == IF data.kind = "string" THEN Utf8Encode(data.val)
                           ELSE data.val
         IN  IF ~CipherAccepts(k, iv) THEN Failure("ENCRYPTION_ENCRYPTION_FAILED")
             ELSE [ok |-> TRUE,
                   blob |-> EncryptedBlob(iv, CbcEncrypt(k, iv, Pkcs7Pad(dataBuffer)))]

\* What decrypt returns for the decrypted bytes.
DecryptedValue(bytes) == Utf8Decode(bytes)

\* A check that also turns away a blob that is an IV and nothing else.
NoCiphertext(encryptedData) == Len(encryptedData) <= IVLength

\* encryptedData.length < 16: no room for the IV.
MissingIV(encryptedData) == Len(encryptedData) < IVLength

\* decrypt(encryptedData)
decrypt(k, encryptedData) ==
    IF KeyMissing(k) THEN Failure("ENCRYPTION_KEY_NOT_INITIALIZED")
    ELSE IF MissingIV(encryptedData)
         THEN Failure("ENCRYPTION_INVALID_ENCRYPTED_DATA")
    ELSE LET iv == SubSeq(encryptedData, 1, IVLength)
             ciphertext == SubSeq(encryptedData, IVLength + 1, Len(encryptedData))
         IN  IF \/ ~CipherAccepts(k, iv)
                \/ ciphertext = <<>>
                \/ Len(ciphertext) % BlockSize # 0
             THEN Failure("ENCRYPTION_DECRYPTION_FAILED")
             ELSE LET padded == CbcDecrypt(k, iv, ciphertext)
                  IN  IF ~Pkcs7Ok(padded) THEN Failure("ENCRYPTION_DECRYPTION_FAILED")
                      ELSE [ok |-> TRUE, text |-> DecryptedValue(Pkcs7Unpad(padded))]

\* getKeyInfo().keySizeBits
keySizeBits(size) == size * 8

-----------------------------------------------------------------------------
(* EncryptionManager: the key                                              *)

\* The processes (or manager objects) that share one key file.
Managers == {1, 2}

\* Buffer.alloc(0), the key of a manager that has not initialized.
NoKey == <<>>

AbsentFile == [exists |-> FALSE, readable |-> FALSE, content |-> <<>>]
FileWith(content) == [exists |-> TRUE, readable |-> TRUE, content |-> content]
Unreadable(file) == [file EXCEPT !.readable = FALSE]

HexDigits == Chars("0123456789abcdef")

\* key.toString('hex')
HexEncode(bytes) ==
    [k \in 1..(2 * Len(bytes)) |->
        LET b == bytes[(k + 1) \div 2]
        IN  HexDigits[(IF k % 2 = 1 THEN b \div 16 ELSE b % 16) + 1]]

\* key.toString('base64'), the text loadOrCreateKey writes
KeyFileText(k) == Base64Encode(k)

\* Buffer.from(keyBase64.trim(), 'base64'), the key loadOrCreateKey reads
KeyInFile(file) == Base64Decode(Trim(file.content))

\* The size check against the key size in bits.
KeyValidBits(k, size) == Len(k) = size * 8

\* key.length !== this.config.keySize fails
KeyValid(k, size) == Len(k) = size

\* The manager state before initialize() is first called.
KeyIdle ==
    /\ keySize = CipherKeyLength
    /\ keyFile = AbsentFile
    /\ pc = [m \in Managers |-> "new"]
    /\ key = [m \in Managers |-> NoKey]
    /\ newKey = [m \in Managers |-> NoKey]
    /\ initLog = <<>>

NoData == [kind |-> "string", val |-> <<>>]
NoDecrypt == [called |-> FALSE]
NoKeyInfo == [algorithm |-> "", keySizeBits |-> 0]

CipherIdle ==
    /\ plain = NoData
    /\ encLog = <<>>
    /\ lastDecrypt = NoDecrypt
    /\ lastKeyInfo = NoKeyInfo

-----------------------------------------------------------------------------
(* StorageManager                                                          *)

DigitChars == Chars("0123456789")
Digit(n) == DigitChars[n + 1]
TwoDigits(n) == <<Digit((n \div 10) % 10), Digit(n % 10)>>
ThreeDigits(n) == <<Digit((n \div 100) % 10)>> \o TwoDigits(n)

\* The calendar day the clock starts in; the clock stays within its first hour.
ClockDate == Chars("2024-01-01")

\* new Date().toISOString() at clock t: YYYY-MM-DDTHH:mm:ss.sssZ
toISOString(t) ==
    ClockDate \o <<"T">> \o TwoDigits((t \div 3600000) % 24) \o <<":">>
      \o TwoDigits((t \div 60000) % 60) \o <<":">>
      \o TwoDigits((t \div 1000) % 60) \o <<".">>
      \o ThreeDigits(t % 1000) \o <<"Z">>

\* .replace(/[-:T.Z]/g, '')
StripPunctuation(s) == SelectSeq(s, LAMBDA c : c \notin {"-", ":", "T", ".", "Z"})

TimestampLength == 14

\* generateFilename() at clock t
generateFilename(t) ==
    Chars("private_thought_")
      \o SliceTo(StripPunctuation(toISOString(t)), TimestampLength)
      \o Chars(".enc")

\* path.basename(filename)
WithSuffix(filename) == filename

\* path.basename(filename, '.enc')
Basename(filename) ==
    IF Len(filename) >= 4 /\ SubSeq(filename, Len(filename) - 3, Len(filename)) = Chars(".enc")
    THEN SubSeq(filename, 1, Len(filename) - 4)
    ELSE filename

\* fsPromises.writeFile(filepath, data) at clock t: creates or replaces.
WriteFile(dir, filename, data, t) ==
    [f \in (DOMAIN dir) \cup {filename} |->
        IF f = filename THEN [content |-> data, mtimeMs |-> t] ELSE dir[f]]

\* The empty directory.
NoFiles == [f \in {} |-> [content |-> <<>>, mtimeMs |-> 0]]

\* The callers that may have a save under way at the same time.
Savers == {1, 2}

\* A save under way: where it stands, its data and filename, whether the
\* directory was there when it was called and whether the directory was removed
\* from outside since.
NotSaving == [pc |-> "idle", data |-> <<>>, filename |-> <<>>,
              dirAtCall |-> FALSE, disturbed |-> FALSE]

StorageIdle ==
    /\ now = 0
    /\ baseWritable = TRUE
    /\ diskFull = FALSE
    /\ privateDirExists = FALSE
    /\ files = NoFiles
    /\ storageReady = FALSE
    /\ saving = [c \in Savers |-> NotSaving]
    /\ saveLog = <<>>

NoStats == [count |-> 0, totalSizeBytes |-> 0, oldestTimestamp |-> 0,
            newestTimestamp |-> 0]

\* A getThoughtMetadata call under way: who called it, the paths getSavedFiles
\* returned, the next one to stat, the records pushed so far; and the files as
\* readdir saw them, with whether they have stayed so.
NotListing == [pc |-> "idle", purpose |-> "", paths |-> <<>>, k |-> 0,
               acc |-> <<>>, seen |-> NoFiles, intact |-> TRUE]

ReadIdle ==
    /\ listing = NotListing
    /\ lastList = [called |-> FALSE]
    /\ lastStats = [called |-> FALSE]

\* No process_response call has been made.
NotProcessing ==
    [pc |-> "idle", publicOutput |-> <<>>, privateThoughts |-> <<>>,
     storedThoughts |-> <<>>, encryptedData |-> <<>>,
     response |-> [isError |-> FALSE, none |-> TRUE]]

ServerIdle ==
    /\ serverPc = "start"
    /\ exitStatus = 0
    /\ processing = NotProcessing

-----------------------------------------------------------------------------
(* Inputs of the privacy detector                                          *)

Pieces == <<
    Chars("This is public. This is something I wouldn't say publicly."),
    Chars("Keep this to yourself."),
    Chars("code red"),
    Chars("abc"),
    Chars("a.c"),
    Chars("I think I feel"),
    Chars("we fear the big dog")
>>

\* A blank line between two pieces.
BlankLine == <<"\n", "\n">>

\* The texts of at most n pieces.
MaxPieces == 2
RECURSIVE TextsOf(_)
TextsOf(n) ==
    IF n <= 1 THEN {Pieces[i] : i \in 1..Len(Pieces)}
    ELSE TextsOf(n - 1) \cup
         {t \o BlankLine \o Pieces[i] : t \in TextsOf(n - 1), i \in 1..Len(Pieces)}

Texts == TextsOf(MaxPieces)

\* DEFAULT_CONFIG.privacy, and the two extreme threshold pairs.
DefaultIntrospectionThreshold == Rat(7, 10)
DefaultSensitivityThreshold == Rat(8, 10)
ThresholdPairs == {
    <<DefaultIntrospectionThreshold, DefaultSensitivityThreshold>>,
    <<Rat(1, 1), Rat(1, 1)>>,
    <<Rat(0, 1), Rat(0, 1)>>
}

CustomPatternLists == {
    <<>>,
    <<Chars("a.c")>>,
    <<Chars("code\\s+red")>>,
    <<Chars("(?i)this is just for you")>>
}

\* Every threshold pair without custom patterns, and every list of custom
\* patterns with the default thresholds.
PrivacyConfigs ==
    {[introspectionThreshold |-> cfg[1][1], sensitivityThreshold |-> cfg[1][2],
      customPatterns |-> cfg[2]] :
        cfg \in {x \in ThresholdPairs \X CustomPatternLists :
                   \/ x[2] = <<>>
                   \/ x[1] = <<DefaultIntrospectionThreshold,
                               DefaultSensitivityThreshold>>}}

NoAnalysis ==
    [publicOutput |-> <<>>, privateThoughts |-> <<>>,
     scores |-> [introspectionScores |-> <<>>, sensitivityScores |-> <<>>]]
NoResponse == [isError |-> FALSE, none |-> TRUE]

-----------------------------------------------------------------------------
(* The privacy detector as a state machine                                 *)

\* The text of the one request sent to the server once it runs.
ReadmeRequest == Chars("This is public. This is something I wouldn't say publicly.")

PrivacyInit ==
    /\ privacyConfig \in PrivacyConfigs
    /\ request \in Texts \cup {<<>>}
    /\ privacyPatterns = <<>>
    /\ detectorReady = FALSE
    /\ lastCall = "none"
    /\ lastText = <<>>
    /\ lastAnalysis = NoAnalysis
    /\ lastResponse = NoResponse
    /\ patternLastIndex = <<>>
    /\ classifyLog = <<>>
    /\ KeyIdle
    /\ CipherIdle
    /\ StorageIdle
    /\ ReadIdle
    /\ ServerIdle

\* createPrivacyDetector: construct, then initialize().
DetectorInitialize ==
    /\ ~detectorReady
    /\ \E patterns \in {InitialPatterns(privacyConfig)} :
          /\ privacyPatterns' = patterns
          /\ patternLastIndex' = [k \in 1..Len(patterns) |-> 0]
    /\ detectorReady' = TRUE
    /\ lastCall' = "initialize"
    /\ UNCHANGED <<privacyConfig, request, lastText, lastAnalysis, lastResponse, classifyLog>>
    /\ UNCHANGED <<keyVars, cipherVars, storageVars, readVars, serverVars>>

\* The analyze_privacy tool, called with args.text = text: an empty text
\* is refused as a missing parameter.
AnalyzePrivacy(text) ==
    /\ detectorReady
    /\ lastCall' = "analyze_privacy"
    /\ lastText' = text
    /\ IF text = <<>>
       THEN /\ lastAnalysis' = lastAnalysis
            /\ lastResponse' =
                 ErrorResponse("Error analyzing privacy: Missing required parameter: text")
            /\ UNCHANGED <<patternLastIndex, classifyLog>>
       ELSE \E out \in {processOutput(privacyPatterns, patternLastIndex,
                                       privacyConfig, text)} :
                /\ lastAnalysis' = out.result
                /\ lastResponse' = analyzePrivacyResponse(out.result)
                /\ patternLastIndex' = out.lastIndex
                /\ classifyLog' = Append(classifyLog,
                      [text |-> text,
                       publicOutput |-> out.result.publicOutput,
                       privateThoughts |-> out.result.privateThoughts])
    /\ UNCHANGED <<privacyConfig, privacyPatterns, detectorReady, request>>
    /\ UNCHANGED <<keyVars, cipherVars, storageVars, readVars, serverVars>>

\* The one analyze_privacy call of a behaviour, with the text of request.
HandleAnalyzePrivacy ==
    /\ lastCall = "initialize"
    /\ AnalyzePrivacy(request)

PrivacyNext ==
    \/ DetectorInitialize
    \/ HandleAnalyzePrivacy

PrivacySpec == PrivacyInit /\ [][PrivacyNext]_vars

-----------------------------------------------------------------------------
(* Inputs of the encryption manager                                        *)

\* How many values the random source is allowed to return.
NumRandom == 2

\* crypto.randomBytes(n): one of NumRandom byte strings of length n.
RandomBytes(n, seed) == [i \in 1..n |-> (seed * 37 + i * 11) % 256]
RandomSeeds == 1..NumRandom

\* encryption.keySize: the default, and a size AES-256 does not accept.
DefaultKeySize == 32
KeySizes == {DefaultKeySize, DefaultKeySize \div 2}

\* The key file before the first run: absent, holding a key of either size
\* (with or without a final newline), holding something else, or not readable.
StoredKeys == {RandomBytes(size, NumRandom + 1) : size \in KeySizes}
KeyFiles ==
    {AbsentFile, FileWith(<<>>), FileWith(Chars("not a key"))}
      \cup {FileWith(KeyFileText(k)) : k \in StoredKeys}
      \cup {FileWith(KeyFileText(k) \o <<"\n">>) : k \in StoredKeys}
      \cup {Unreadable(FileWith(KeyFileText(k))) : k \in StoredKeys}

\* How many times initialize() is called in all.
MaxInits == 2

PrivacyIdle ==
    /\ privacyConfig = [introspectionThreshold |-> DefaultIntrospectionThreshold,
                        sensitivityThreshold |-> DefaultSensitivityThreshold,
                        customPatterns |-> <<>>]
    /\ request = <<>>
    /\ privacyPatterns = <<>>
    /\ detectorReady = FALSE
    /\ lastCall = "none"
    /\ lastText = <<>>
    /\ lastAnalysis = NoAnalysis
    /\ lastResponse = NoResponse
    /\ patternLastIndex = <<>>
    /\ classifyLog = <<>>

-----------------------------------------------------------------------------
(* The key of the encryption manager as a state machine                    *)

KeyInit ==
    /\ keySize \in KeySizes
    /\ keyFile \in KeyFiles
    /\ pc = [m \in Managers |-> "new"]
    /\ key = [m \in Managers |-> NoKey]
    /\ newKey = [m \in Managers |-> NoKey]
    /\ initLog = <<>>
    /\ CipherIdle
    /\ PrivacyIdle
    /\ StorageIdle
    /\ ReadIdle
    /\ ServerIdle

Running(m) == pc[m] \in {"access", "readFile", "writeFile"}

\* The entry of initLog for the run of m that is under way.
RunOf(m) == CHOOSE i \in 1..Len(initLog) : initLog[i].m = m /\ ~initLog[i].done

\* initialize() returns (ok) or throws: whatever loadOrCreateKey threw is
\* wrapped as INIT_FAILED.
Returned(m, ok, k, generated, file) ==
    [initLog EXCEPT ![RunOf(m)] =
        [@ EXCEPT !.done = TRUE, !.ok = ok, !.key = k,
                  !.code = IF ok THEN "" ELSE "ENCRYPTION_INIT_FAILED",
                  !.generated = generated, !.after = file]]

\* initialize() is called: loadOrCreateKey starts with fs.access.
StartInitialize(m) ==
    /\ ~Running(m)
    /\ Len(initLog) < MaxInits
    /\ pc' = [pc EXCEPT ![m] = "access"]
    /\ initLog' = Append(initLog, [m |-> m, done |-> FALSE, ok |-> FALSE,
                                   code |-> "",
                                   key |-> NoKey, generated |-> FALSE,
                                   before |-> keyFile, after |-> keyFile])
    /\ UNCHANGED <<keySize, keyFile, key, newKey>>
    /\ UNCHANGED <<cipherVars, privacyVars, storageVars, readVars, serverVars>>

\* The catch block generates a key and starts writing it.
GenerateKey(m) ==
    \E seed \in RandomSeeds :
        /\ newKey' = [newKey EXCEPT ![m] = RandomBytes(keySize, seed)]
        /\ pc' = [pc EXCEPT ![m] = "writeFile"]
        /\ UNCHANGED <<keySize, keyFile, key, initLog>>

\* The error fs.access(file, R_OK) rejects with, "" when it resolves.
AccessError(file) ==
    IF ~file.exists THEN "ENOENT"
    ELSE IF ~file.readable THEN "EACCES"
    ELSE ""

\* A catch clause that takes every error for a missing file.
RethrowsNothing(code) == FALSE

\* The catch clause of loadOrCreateKey rethrows an error of the file system
\* unless it says that the file does not exist.
Rethrows(code) == code # "ENOENT"

\* fs.access(keyFile, R_OK) settles.
AccessDone(m) ==
    /\ pc[m] = "access"
    /\ IF AccessError(keyFile) = ""
       THEN /\ pc' = [pc EXCEPT ![m] = "readFile"]
            /\ UNCHANGED <<keySize, keyFile, key, newKey, initLog>>
       ELSE IF Rethrows(AccessError(keyFile))
       THEN /\ pc' = [pc EXCEPT ![m] = "failed"]
            /\ initLog' = Returned(m, FALSE, key[m], FALSE, keyFile)
            /\ UNCHANGED <<keySize, keyFile, key, newKey>>
       ELSE GenerateKey(m)
    /\ UNCHANGED <<cipherVars, privacyVars, storageVars, readVars, serverVars>>

\* fs.readFile settles; the key is decoded and its size checked.
ReadFileDone(m) ==
    /\ pc[m] = "readFile"
    /\ IF ~keyFile.exists
       THEN GenerateKey(m)
       ELSE IF KeyValid(KeyInFile(keyFile), keySize)
       THEN /\ key' = [key EXCEPT ![m] = KeyInFile(keyFile)]
            /\ pc' = [pc EXCEPT ![m] = "ready"]
            /\ initLog' = Returned(m, TRUE, KeyInFile(keyFile), FALSE, keyFile)
            /\ UNCHANGED <<keySize, keyFile, newKey>>
       ELSE GenerateKey(m)
    /\ UNCHANGED <<cipherVars, privacyVars, storageVars, readVars, serverVars>>

\* fs.writeFile settles: the generated key is in the file and becomes this.key.
WriteFileDone(m) ==
    /\ pc[m] = "writeFile"
    /\ keyFile' = FileWith(KeyFileText(newKey[m]))
    /\ key' = [key EXCEPT ![m] = newKey[m]]
    /\ pc' = [pc EXCEPT ![m] = "ready"]
    /\ initLog' = Returned(m, TRUE, newKey[m], TRUE, keyFile')
    /\ UNCHANGED <<keySize, newKey>>
    /\ UNCHANGED <<cipherVars, privacyVars, storageVars, readVars, serverVars>>

\* One initialize() at a time: a call waits for the runs under way.
NoneRunning == \A m \in Managers : ~Running(m)

KeyNext ==
    \E m \in Managers :
        \/ NoneRunning /\ StartInitialize(m)
        \/ AccessDone(m)
        \/ ReadFileDone(m)
        \/ WriteFileDone(m)

KeySpec == KeyInit /\ [][KeyNext]_vars

-----------------------------------------------------------------------------
(* The cipher of the encryption manager as a state machine                 *)

\* A code point of three UTF-8 bytes, and a lone surrogate.
CodePoints == {8364, 55357}

\* The two bytes of U+00E9: valid UTF-8 in this order only.
ByteValues == {195, 169}

\* The longest data drawn from these alphabets.
MaxPlainLen == 2

SeqsUpTo(S, n) == UNION {[1..k -> S] : k \in 0..n}

\* A text that fills one cipher block exactly.
BlockOfText == [i \in 1..BlockSize |-> 97]

Plaintexts ==
    {[kind |-> "string", val |-> v] : v \in SeqsUpTo(CodePoints, MaxPlainLen)}
      \cup {[kind |-> "buffer", val |-> v] : v \in SeqsUpTo(ByteValues, MaxPlainLen)}
      \cup {[kind |-> "string", val |-> v] : v \in {<<97>>, <<233>>, <<128512>>, BlockOfText}}
      \cup {[kind |-> "buffer", val |-> <<255>>]}

\* How many times encrypt is called.
MaxEncrypts == 2

CipherInit ==
    /\ keySize \in KeySizes
    /\ keyFile \in {AbsentFile, FileWith(KeyFileText(RandomBytes(DefaultKeySize, NumRandom + 1)))}
    /\ pc = [m \in Managers |-> "new"]
    /\ key = [m \in Managers |-> NoKey]
    /\ newKey = [m \in Managers |-> NoKey]
    /\ initLog = <<>>
    /\ plain \in Plaintexts
    /\ encLog = <<>>
    /\ lastDecrypt = NoDecrypt
    /\ lastKeyInfo = NoKeyInfo
    /\ PrivacyIdle
    /\ StorageIdle
    /\ ReadIdle
    /\ ServerIdle

\* encrypt(data) on manager m, called between runs of initialize().
EncryptData(m, data) ==
    /\ ~Running(m)
    /\ Len(encLog) < MaxEncrypts
    /\ \E seed \in RandomSeeds :
          LET iv == RandomBytes(IVLength, seed)
          IN  encLog' = Append(encLog, [m |-> m, key |-> key[m], data |-> data,
                                        iv |-> iv, inits |-> Len(initLog),
                                        result |-> encrypt(key[m], data, iv)])
    /\ UNCHANGED <<plain, lastDecrypt, lastKeyInfo>>

\* encrypt(plain), called from outside the server's handlers.
Encrypt(m) ==
    /\ EncryptData(m, plain)
    /\ UNCHANGED <<keyVars, privacyVars, storageVars, readVars, serverVars>>

\* The buffers handed to decrypt: a blob encrypt returned, whole or cut short.
CutLengths(blob) == {IVLength - 1, IVLength, Len(blob)}

\* decrypt(encryptedData) on manager m.
Decrypt(m) ==
    /\ encLog # <<>>
    /\ encLog[Len(encLog)].result.ok
    /\ LET blob == encLog[Len(encLog)].result.blob
       IN  \E n \in CutLengths(blob) :
              lastDecrypt' = [called |-> TRUE, m |-> m, key |-> key[m],
                              source |-> Len(encLog), intact |-> n = Len(blob),
                              length |-> n,
                              result |-> decrypt(key[m], SubSeq(blob, 1, n))]
    /\ UNCHANGED <<plain, encLog, lastKeyInfo>>
    /\ UNCHANGED <<keyVars, privacyVars, storageVars, readVars, serverVars>>

\* Buffers that no encrypt call of this manager returned: of 0, 15, 16, 17
\* and 32 bytes.
ForeignBlobs ==
    {RandomBytes(n, 1) : n \in {0, IVLength - 1, IVLength, IVLength + 1,
                                IVLength + BlockSize}}

\* decrypt(blob) on manager m for such a buffer.
DecryptBlob(m, blob) ==
    /\ ~Running(m)
    /\ lastDecrypt' = [called |-> TRUE, m |-> m, key |-> key[m],
                       source |-> 0, intact |-> FALSE, length |-> Len(blob),
                       result |-> decrypt(key[m], blob)]
    /\ UNCHANGED <<plain, encLog, lastKeyInfo>>
    /\ UNCHANGED <<keyVars, privacyVars, storageVars, readVars, serverVars>>

\* One manager: createEncryptionManager, then encrypt and decrypt calls.
Cipher == 1

CipherNext ==
    \/ pc[Cipher] = "new" /\ StartInitialize(Cipher)
    \/ AccessDone(Cipher)
    \/ ReadFileDone(Cipher)
    \/ WriteFileDone(Cipher)
    \/ Encrypt(Cipher)
    \/ Decrypt(Cipher)

CipherSpec == CipherInit /\ [][CipherNext]_vars

-----------------------------------------------------------------------------
(* One encryption manager, its callers and the key file's other writers    *)

\* The data encrypt is given here: the empty text and a one-letter text.
ManagerData == {NoData, [kind |-> "string", val |-> <<97>>]}

\* The key file at construction.
ManagerKeyFiles ==
    {AbsentFile,
     FileWith(KeyFileText(RandomBytes(DefaultKeySize, NumRandom + 1))),
     Unreadable(FileWith(KeyFileText(RandomBytes(DefaultKeySize, NumRandom + 1))))}

ManagerInit ==
    /\ keySize \in KeySizes
    /\ keyFile \in ManagerKeyFiles
    /\ pc = [m \in Managers |-> "new"]
    /\ key = [m \in Managers |-> NoKey]
    /\ newKey = [m \in Managers |-> NoKey]
    /\ initLog = <<>>
    /\ plain \in ManagerData
    /\ encLog = <<>>
    /\ lastDecrypt = NoDecrypt
    /\ lastKeyInfo = NoKeyInfo
    /\ PrivacyIdle
    /\ StorageIdle
    /\ ReadIdle
    /\ ServerIdle

\* Something outside the program deletes the key file that initialize() left
\* behind, makes it unreadable, or puts another key of the configured size in
\* it.
KeyFileChanged ==
    /\ initLog # <<>>
    /\ initLog[Len(initLog)].done
    /\ keyFile = initLog[Len(initLog)].after
    /\ \E file \in {AbsentFile, Unreadable(keyFile),
                    FileWith(KeyFileText(RandomBytes(keySize, NumRandom + 2)))} :
          /\ file # keyFile
          /\ (file.exists \/ keyFile.exists)
          /\ keyFile' = file
    /\ UNCHANGED <<keySize, pc, key, newKey, initLog>>
    /\ UNCHANGED <<cipherVars, privacyVars, storageVars, readVars, serverVars>>

\* getKeyInfo() on manager m.
GetKeyInfo(m) ==
    /\ lastKeyInfo' = [algorithm |-> "AES-256", keySizeBits |-> keySizeBits(keySize)]
    /\ UNCHANGED <<plain, encLog, lastDecrypt>>
    /\ UNCHANGED <<keyVars, privacyVars, storageVars, readVars, serverVars>>

ManagerNext ==
    \/ StartInitialize(Cipher)
    \/ AccessDone(Cipher)
    \/ ReadFileDone(Cipher)
    \/ WriteFileDone(Cipher)
    \/ KeyFileChanged
    \/ encLog = <<>> /\ Encrypt(Cipher)
    \/ Decrypt(Cipher)
    \/ GetKeyInfo(Cipher)

ManagerSpec == ManagerInit /\ [][ManagerNext]_vars

\* One manager that is initialized once and then given blobs to decrypt: its
\* own, whole or cut short, and buffers it never produced.
BlobNext ==
    \/ pc[Cipher] = "new" /\ StartInitialize(Cipher)
    \/ AccessDone(Cipher)
    \/ ReadFileDone(Cipher)
    \/ WriteFileDone(Cipher)
    \/ encLog = <<>> /\ Encrypt(Cipher)
    \/ Decrypt(Cipher)
    \/ \E blob \in ForeignBlobs : DecryptBlob(Cipher, blob)

BlobSpec == ManagerInit /\ [][BlobNext]_vars

-----------------------------------------------------------------------------
(* The storage manager as a state machine                                  *)

\* The clock advances in steps of TickMillis, MaxTicks times at most.
TickMillis == 500
MaxTicks == 3

\* How many times saveEncryptedThought is called.
MaxSaves == 2

\* The buffers handed to saveEncryptedThought.
SaveBlobs == {<<>>, <<1>>, <<2, 2>>}

NoThought == [id |-> <<>>, filepath |-> <<>>, timestamp |-> 0, sizeBytes |-> 0]

StorageInit ==
    /\ now = 0
    /\ baseWritable = TRUE
    /\ diskFull = FALSE
    /\ privateDirExists \in BOOLEAN
    /\ files = NoFiles
    /\ storageReady = FALSE
    /\ saving = [c \in Savers |-> NotSaving]
    /\ saveLog = <<>>
    /\ KeyIdle
    /\ CipherIdle
    /\ PrivacyIdle
    /\ ReadIdle
    /\ ServerIdle

Tick ==
    /\ now < MaxTicks * TickMillis
    /\ now' = now + TickMillis
    /\ UNCHANGED <<baseWritable, diskFull, privateDirExists, files, storageReady, saving, saveLog>>
    /\ UNCHANGED <<keyVars, cipherVars, privacyVars, readVars, serverVars>>

\* An ensurePrivateDirectory() that checks and does not create.
DirectoryMissing == ~privateDirExists

\* ensurePrivateDirectory() rejects: access fails as the directory is not
\* there, and mkdir fails too.
EnsureFails == ~privateDirExists /\ ~baseWritable

\* StorageManager.initialize(): ensurePrivateDirectory(), when it resolves.
StorageInitialize ==
    /\ ~storageReady
    /\ ~EnsureFails
    /\ privateDirExists' = TRUE
    /\ storageReady' = TRUE
    /\ UNCHANGED <<now, baseWritable, diskFull, files, saving, saveLog>>
    /\ UNCHANGED <<keyVars, cipherVars, privacyVars, readVars, serverVars>>

SavesUnderWay == Cardinality({c \in Savers : saving[c].pc # "idle"})

\* A saveEncryptedThought that takes every buffer.
NeverEmpty(encryptedData) == FALSE

\* !encryptedData || encryptedData.length === 0
EmptyData(encryptedData) == Len(encryptedData) = 0

\* saveEncryptedThought(data) is called: the empty buffer is refused at once,
\* otherwise the call waits for ensurePrivateDirectory().
SaveCall(c, data) ==
    /\ saving[c].pc = "idle"
    /\ Len(saveLog) + SavesUnderWay < MaxSaves
    /\ IF EmptyData(data)
       THEN /\ saveLog' = Append(saveLog, [caller |-> c, ok |-> FALSE,
                                           code |-> "STORAGE_EMPTY_DATA",
                                           data |-> data, thought |-> NoThought,
                                           dirAtCall |-> privateDirExists,
                                           disturbed |-> FALSE])
            /\ UNCHANGED saving
       ELSE /\ saving' = [saving EXCEPT ![c] = [pc |-> "ensure", data |-> data,
                                                filename |-> <<>>,
                                                dirAtCall |-> privateDirExists,
                                                disturbed |-> FALSE]]
            /\ UNCHANGED saveLog
    /\ UNCHANGED <<now, baseWritable, diskFull, privateDirExists, files, storageReady>>
    /\ UNCHANGED <<keyVars, cipherVars, privacyVars, readVars, serverVars>>

\* ensurePrivateDirectory() settles; the filename is generated and the write
\* starts.
EnsureDone(c) ==
    /\ saving[c].pc = "ensure"
    /\ IF EnsureFails
       THEN /\ saveLog' = Append(saveLog, [caller |-> c, ok |-> FALSE,
                                           code |-> "STORAGE_SAVE_FAILED",
                                           data |-> saving[c].data,
                                           thought |-> NoThought,
                                           dirAtCall |-> saving[c].dirAtCall,
                                           disturbed |-> saving[c].disturbed])
            /\ saving' = [saving EXCEPT ![c] = NotSaving]
            /\ UNCHANGED privateDirExists
       ELSE /\ privateDirExists' = TRUE
            /\ saving' = [saving EXCEPT ![c] = [@ EXCEPT !.pc = "writeFile",
                                                         !.filename = generateFilename(now)]]
            /\ UNCHANGED saveLog
    /\ UNCHANGED <<now, baseWritable, diskFull, files, storageReady>>
    /\ UNCHANGED <<keyVars, cipherVars, privacyVars, readVars, serverVars>>

\* fsPromises.writeFile settles.
WriteDone(c) ==
    /\ saving[c].pc = "writeFile"
    /\ IF privateDirExists /\ ~diskFull
       THEN /\ files' = WriteFile(files, saving[c].filename, saving[c].data, now)
            /\ saving' = [saving EXCEPT ![c] = [@ EXCEPT !.pc = "written"]]
            /\ UNCHANGED saveLog
       ELSE /\ saveLog' = Append(saveLog, [caller |-> c, ok |-> FALSE,
                                           code |-> IF privateDirExists
                                                    THEN "STORAGE_STORAGE_FULL"
                                                    ELSE "STORAGE_SAVE_FAILED",
                                           data |-> saving[c].data,
                                           thought |-> NoThought,
                                           dirAtCall |-> saving[c].dirAtCall,
                                           disturbed |-> saving[c].disturbed])
            /\ saving' = [saving EXCEPT ![c] = NotSaving]
            /\ UNCHANGED files
    /\ UNCHANGED <<now, baseWritable, diskFull, privateDirExists, storageReady>>
    /\ UNCHANGED <<keyVars, cipherVars, privacyVars, readVars, serverVars>>

\* saveEncryptedThought builds the StoredThought and returns it.
SaveReturn(c) ==
    /\ saving[c].pc = "written"
    /\ saveLog' = Append(saveLog,
          [caller |-> c, ok |-> TRUE, code |-> "",
           data |-> saving[c].data,
           thought |-> [id |-> Basename(saving[c].filename),
                        filepath |-> saving[c].filename,
                        timestamp |-> now,
                        sizeBytes |-> Len(saving[c].data)],
           dirAtCall |-> saving[c].dirAtCall,
           disturbed |-> saving[c].disturbed])
    /\ saving' = [saving EXCEPT ![c] = NotSaving]
    /\ UNCHANGED <<now, baseWritable, diskFull, privateDirExists, files, storageReady>>
    /\ UNCHANGED <<keyVars, cipherVars, privacyVars, readVars, serverVars>>

StorageNext ==
    \/ Tick
    \/ StorageInitialize
    \/ \E c \in Savers :
          \/ \E data \in SaveBlobs : SaveCall(c, data)
          \/ EnsureDone(c)
          \/ WriteDone(c)
          \/ SaveReturn(c)

StorageSpec == StorageInit /\ [][StorageNext]_vars

-----------------------------------------------------------------------------
(* Listing and statistics of the store                                     *)

\* file.endsWith(suffix)
EndsWith(name, suffix) ==
    /\ Len(name) >= Len(suffix)
    /\ SubSeq(name, Len(name) - Len(suffix) + 1, Len(name)) = suffix

\* getSavedFiles(): the entries readdir returned that end in .enc, in its order.
\* (path.join with privateDir is left out: a path is the entry's name.)
SavedFiles(entries) == SelectSeq(entries, LAMBDA f : EndsWith(f, Chars(".enc")))

\* readdir promises no order: any arrangement of the names.
Orderings(names) ==
    {q \in [1..Cardinality(names) -> names] :
        \A i, j \in 1..Cardinality(names) : i # j => q[i] # q[j]}

\* fsPromises.stat(filepath)
Stat(file) == [mtimeMs |-> file.mtimeMs, size |-> Len(file.content)]

\* The record getThoughtMetadata pushes for a path.
ThoughtOf(filepath, stats) ==
    [id |-> Basename(filepath), filepath |-> filepath,
     timestamp |-> stats.mtimeMs, sizeBytes |-> stats.size]

\* A comparator that puts the oldest first.
OldestFirst(a, b) == a.timestamp - b.timestamp

\* (a, b) => b.timestamp - a.timestamp
NewestFirst(a, b) == b.timestamp - a.timestamp

\* Array.prototype.sort is stable: r goes behind every record that the
\* comparator does not put after it.
InsertSorted(sorted, r) ==
    LET k == Cardinality({i \in 1..Len(sorted) : NewestFirst(sorted[i], r) <= 0})
    IN  SubSeq(sorted, 1, k) \o <<r>> \o SubSeq(sorted, k + 1, Len(sorted))

RECURSIVE SortFrom(_, _, _)
SortFrom(records, k, sorted) ==
    IF k > Len(records) THEN sorted
    ELSE SortFrom(records, k + 1, InsertSorted(sorted, records[k]))

\* A getThoughtMetadata that returns the records in readdir order.
Unsorted(records) == records

\* thoughtsMetadata.sort((a, b) => b.timestamp - a.timestamp)
SortThoughts(records) == SortFrom(records, 1, <<>>)

\* thoughts.reduce((sum, thought) => sum + thought.sizeBytes, 0)
RECURSIVE ReduceSizes(_, _, _)
ReduceSizes(thoughts, k, sum) ==
    IF k > Len(thoughts) THEN sum
    ELSE ReduceSizes(thoughts, k + 1, sum + thoughts[k].sizeBytes)

\* The first of the timestamps.
FirstTimestamp(timestamps) == timestamps[1]

\* Math.min(...timestamps), of one timestamp at least
MathMin(timestamps) ==
    CHOOSE t \in {timestamps[i] : i \in 1..Len(timestamps)} :
        \A i \in 1..Len(timestamps) : t <= timestamps[i]

\* Math.max(...timestamps), of one timestamp at least
MathMax(timestamps) ==
    CHOOSE t \in {timestamps[i] : i \in 1..Len(timestamps)} :
        \A i \in 1..Len(timestamps) : t >= timestamps[i]

\* getStorageStats() for the thoughts getThoughtMetadata returned.
getStorageStats(thoughts) ==
    IF Len(thoughts) = 0 THEN NoStats
    ELSE LET timestamps == [i \in 1..Len(thoughts) |-> thoughts[i].timestamp]
         IN  [count |-> Len(thoughts),
              totalSizeBytes |-> ReduceSizes(thoughts, 1, 0),
              oldestTimestamp |-> MathMin(timestamps),
              newestTimestamp |-> MathMax(timestamps)]

\* getThoughtMetadata() is called, by a client ("list") or by getStorageStats
\* ("stats"): getSavedFiles() settles.  A missing directory gives no paths.
ReadDir(purpose) ==
    /\ listing.pc = "idle"
    /\ \E entries \in (IF privateDirExists THEN Orderings(DOMAIN files) ELSE {<<>>}) :
          listing' = [pc |-> "stat", purpose |-> purpose,
                      paths |-> SavedFiles(entries), k |-> 1, acc |-> <<>>,
                      seen |-> files, intact |-> TRUE]
    /\ UNCHANGED <<lastList, lastStats>>
    /\ UNCHANGED <<privacyVars, keyVars, cipherVars, storageVars, serverVars>>

\* stat of the next path settles: a record is pushed, or the error is logged
\* and the path skipped.
StatDone ==
    /\ listing.pc = "stat"
    /\ listing.k <= Len(listing.paths)
    /\ LET filepath == listing.paths[listing.k]
       IN  listing' = [listing EXCEPT
               !.k = @ + 1,
               !.intact = @ /\ files = listing.seen,
               !.acc = IF filepath \in DOMAIN files
                       THEN Append(@, ThoughtOf(filepath, Stat(files[filepath])))
                       ELSE @]
    /\ UNCHANGED <<lastList, lastStats>>
    /\ UNCHANGED <<privacyVars, keyVars, cipherVars, storageVars, serverVars>>

\* getThoughtMetadata() sorts and returns; getStorageStats() aggregates.
ListReturn ==
    /\ listing.pc = "stat"
    /\ listing.k > Len(listing.paths)
    /\ \E sorted \in {SortThoughts(listing.acc)} :
          IF listing.purpose = "list"
          THEN /\ lastList' = [called |-> TRUE, records |-> sorted,
                               seen |-> listing.seen,
                               intact |-> listing.intact /\ files = listing.seen]
               /\ UNCHANGED lastStats
          ELSE /\ lastStats' = [called |-> TRUE, records |-> sorted,
                                value |-> getStorageStats(sorted),
                                intact |-> listing.intact /\ files = listing.seen]
               /\ UNCHANGED lastList
    /\ listing' = NotListing
    /\ UNCHANGED <<privacyVars, keyVars, cipherVars, storageVars, serverVars>>

\* The private directory is removed from outside, with all that is in it.
RemoveDirectory ==
    /\ privateDirExists
    /\ privateDirExists' = FALSE
    /\ files' = NoFiles
    /\ saving' = [c \in Savers |->
                    IF saving[c].pc = "idle" THEN saving[c]
                    ELSE [saving[c] EXCEPT !.disturbed = TRUE]]
    /\ UNCHANGED <<now, baseWritable, diskFull, storageReady, saveLog>>
    /\ UNCHANGED <<privacyVars, keyVars, cipherVars, readVars, serverVars>>

\* A file that is not a stored thought, though ".enc" is in its name.
OtherFile == Chars("private_thought.enc.bak")

\* Someone else puts a file in the private directory.
ExternalWrite ==
    /\ privateDirExists
    /\ OtherFile \notin DOMAIN files
    /\ files' = WriteFile(files, OtherFile, <<0>>, now)
    /\ UNCHANGED <<now, baseWritable, diskFull, privateDirExists, storageReady, saving,
                   saveLog>>
    /\ UNCHANGED <<privacyVars, keyVars, cipherVars, readVars, serverVars>>

\* Someone else removes a file that a listing under way has still to stat
\* (once).
ExternalUnlink ==
    /\ listing.pc = "stat"
    /\ files = listing.seen
    /\ lastList.called => lastList.intact
    /\ \E j \in listing.k..Len(listing.paths) :
          files' = [f \in (DOMAIN files) \ {listing.paths[j]} |-> files[f]]
    /\ UNCHANGED <<now, baseWritable, diskFull, privateDirExists, storageReady, saving,
                   saveLog>>
    /\ UNCHANGED <<privacyVars, keyVars, cipherVars, readVars, serverVars>>

\* The one caller of the tools below.
Client == 1

\* The texts given to encrypt_thought: of one cipher block and of two.
ThoughtTexts == {[kind |-> "string", val |-> <<97>>],
                 [kind |-> "string", val |-> BlockOfText]}

StoredKey == RandomBytes(DefaultKeySize, NumRandom + 1)

\* The components as createCoreComponents returns them: the key loaded from
\* its file, the private directory there and empty.
ListingInit ==
    /\ keySize = DefaultKeySize
    /\ keyFile = FileWith(KeyFileText(StoredKey))
    /\ pc = [m \in Managers |-> IF m = Cipher THEN "ready" ELSE "new"]
    /\ key = [m \in Managers |-> IF m = Cipher THEN StoredKey ELSE NoKey]
    /\ newKey = [m \in Managers |-> NoKey]
    /\ initLog = <<[m |-> Cipher, done |-> TRUE, ok |-> TRUE, code |-> "",
                    key |-> StoredKey, generated |-> FALSE,
                    before |-> keyFile, after |-> keyFile]>>
    /\ plain \in ThoughtTexts
    /\ encLog = <<>>
    /\ lastDecrypt = NoDecrypt
    /\ lastKeyInfo = NoKeyInfo
    /\ now = 0
    /\ baseWritable = TRUE
    /\ diskFull = FALSE
    /\ privateDirExists = TRUE
    /\ files = NoFiles
    /\ storageReady = TRUE
    /\ saving = [c \in Savers |-> NotSaving]
    /\ saveLog = <<>>
    /\ PrivacyIdle
    /\ ReadIdle
    /\ ServerIdle

\* One request at a time.
NoRequest == listing.pc = "idle" /\ SavesUnderWay = 0

\* The store is read at the end, the listing first and the statistics next:
\* once a listing has been asked for, nothing is saved any more and the
\* clock does not matter; before that, time is let pass during the saves.
NotRead == listing.pc = "idle" /\ ~lastList.called /\ ~lastStats.called

\* handleEncryptThought: encrypt(args.content), then saveEncryptedThought of
\* what it returned.  (Which IV is drawn makes no difference to the store:
\* the first is taken.)
EncryptThought ==
    /\ NotRead
    /\ NoRequest
    /\ Len(encLog) = Len(saveLog)
    /\ Encrypt(Cipher)
    /\ encLog'[Len(encLog')].iv = RandomBytes(IVLength, 1)

StoreThought ==
    /\ NotRead
    /\ NoRequest
    /\ Len(encLog) > Len(saveLog)
    /\ encLog[Len(encLog)].result.ok
    /\ SaveCall(Client, encLog[Len(encLog)].result.blob)

ListingNext ==
    \/ NotRead /\ SavesUnderWay > 0 /\ Tick
    \/ EncryptThought
    \/ StoreThought
    \/ EnsureDone(Client)
    \/ WriteDone(Client)
    \/ SaveReturn(Client)
    \/ NoRequest /\ ~lastList.called /\ ReadDir("list")
    \/ NoRequest /\ lastList.called /\ ~lastStats.called /\ ReadDir("stats")
    \/ StatDone
    \/ ListReturn
    \/ NotRead /\ NoRequest /\ RemoveDirectory
    \/ NotRead /\ NoRequest /\ ExternalWrite
    \/ ExternalUnlink

ListingSpec == ListingInit /\ [][ListingNext]_vars

-----------------------------------------------------------------------------
(* The start of the server                                                 *)

\* The configurations and disks the server is started on: loadConfig never
\* fails, it falls back on the defaults.
StartupInit ==
    /\ privacyConfig \in {c \in PrivacyConfigs : Len(c.customPatterns) <= 1}
    /\ request = ReadmeRequest
    /\ privacyPatterns = <<>>
    /\ detectorReady = FALSE
    /\ lastCall = "none"
    /\ lastText = <<>>
    /\ lastAnalysis = NoAnalysis
    /\ lastResponse = NoResponse
    /\ patternLastIndex = <<>>
    /\ classifyLog = <<>>
    /\ keySize \in KeySizes
    /\ keyFile \in ManagerKeyFiles
    /\ pc = [m \in Managers |-> "new"]
    /\ key = [m \in Managers |-> NoKey]
    /\ newKey = [m \in Managers |-> NoKey]
    /\ initLog = <<>>
    /\ CipherIdle
    /\ now = 0
    /\ baseWritable \in BOOLEAN
    /\ diskFull = FALSE
    /\ privateDirExists \in BOOLEAN
    /\ files = NoFiles
    /\ storageReady = FALSE
    /\ saving = [c \in Savers |-> NotSaving]
    /\ saveLog = <<>>
    /\ ReadIdle
    /\ ServerIdle

\* startServer moves on: from..to.
ServerStep(from, to) ==
    /\ serverPc = from
    /\ serverPc' = to
    /\ UNCHANGED <<exitStatus, processing>>
    /\ UNCHANGED <<privacyVars, keyVars, cipherVars, storageVars, readVars>>

\* process.exit(status)
Exit(status) ==
    /\ serverPc' = "exited"
    /\ exitStatus' = status
    /\ UNCHANGED processing
    /\ UNCHANGED <<privacyVars, keyVars, cipherVars, storageVars, readVars>>

\* loadConfig() resolves and createServer calls createCoreComponents.
LoadConfig == ServerStep("start", "createPrivacyDetector")

\* await createPrivacyDetector(config.privacy) resolves.
DetectorCreated ==
    /\ detectorReady
    /\ ServerStep("createPrivacyDetector", "createEncryptionManager")

\* A factory that resolves whether or not initialize() threw.
KeyManagerSettled == pc[Cipher] \in {"ready", "failed"}

\* createEncryptionManager resolves once initialize() has returned.
KeyManagerReady == pc[Cipher] = "ready"

\* await createEncryptionManager(config.encryption) resolves.
EncryptionCreated ==
    /\ KeyManagerReady
    /\ ServerStep("createEncryptionManager", "createStorageManager")

\* await createStorageManager(config.storage) resolves; the handlers are
\* registered.
StorageCreated ==
    /\ storageReady
    /\ ServerStep("createStorageManager", "connect")

\* A component's initialize() threw: the catch of startServer exits.
StartupFailed ==
    /\ \/ serverPc = "createEncryptionManager" /\ pc[Cipher] = "failed"
       \/ serverPc = "createStorageManager" /\ ~storageReady /\ EnsureFails
    /\ Exit(1)

\* await server.connect(transport) settles.
Connect ==
    /\ serverPc = "connect"
    /\ \/ ServerStep("connect", "running")
       \/ Exit(1)

\* SIGINT: the server is closed and the process exits.
Sigint ==
    /\ serverPc = "running"
    /\ Exit(0)

StartupNext ==
    \/ LoadConfig
    \/ serverPc = "createPrivacyDetector" /\ DetectorInitialize
    \/ DetectorCreated
    \/ serverPc = "createEncryptionManager" /\ pc[Cipher] = "new" /\ StartInitialize(Cipher)
    \/ AccessDone(Cipher)
    \/ ReadFileDone(Cipher)
    \/ WriteFileDone(Cipher)
    \/ EncryptionCreated
    \/ serverPc = "createStorageManager" /\ StorageInitialize
    \/ StorageCreated
    \/ StartupFailed
    \/ Connect
    \/ serverPc = "running" /\ HandleAnalyzePrivacy
    \/ Sigint

StartupSpec == StartupInit /\ [][StartupNext]_vars

\* Node runs the catch clause of startServer once an awaited promise has
\* rejected.
StartupFairSpec == StartupSpec /\ WF_vars(StartupFailed)

-----------------------------------------------------------------------------
(* Claims about the privacy detector                                       *)

DefaultPrivacyConfig ==
    /\ privacyConfig.introspectionThreshold = DefaultIntrospectionThreshold
    /\ privacyConfig.sensitivityThreshold = DefaultSensitivityThreshold
    /\ privacyConfig.customPatterns = <<>>

Classified == lastCall = "analyze_privacy" /\ lastText # <<>>

ReadmeText == Chars("This is public. This is something I wouldn't say publicly.")
ReadmePublic == Chars("This is public.")
ReadmePrivate == Chars("This is something I wouldn't say publicly.")

\* C1: with the default thresholds and no custom patterns, classifying the
\* README's text yields exactly one private segment, its second sentence,
\* and a publicOutput equal to its first sentence.
C1_ReadmeExample ==
    (Classified /\ DefaultPrivacyConfig /\ lastText = ReadmeText)
        => /\ lastAnalysis.privateThoughts = <<ReadmePrivate>>
           /\ lastAnalysis.publicOutput = ReadmePublic

\* The segments of the classified text, and the verdict the result records
\* for one of them.
LastSegments == splitIntoSegments(lastText)
IsPrivate(segment) ==
    \E j \in 1..Len(lastAnalysis.privateThoughts) : lastAnalysis.privateThoughts[j] = segment

MatchesIndicator(segment) ==
    \E k \in 1..Len(privacyPatterns) : RegexTest(privacyPatterns[k], segment)
IntrospectionOver(segment) ==
    RatGreater(calculateIntrospectionScore(segment), privacyConfig.introspectionThreshold)
SensitivityOver(segment) ==
    RatGreater(calculateSensitivityScore(segment), privacyConfig.sensitivityThreshold)

\* C6: a segment is classified private if and only if it matches an
\* indicator pattern, or its introspection score is strictly greater than
\* introspectionThreshold, or its sensitivity score is strictly greater than
\* sensitivityThreshold.
C6_ClassificationRule ==
    Classified =>
        \A k \in 1..Len(LastSegments) :
            IsPrivate(LastSegments[k]) <=>
                \/ MatchesIndicator(LastSegments[k])
                \/ IntrospectionOver(LastSegments[k])
                \/ SensitivityOver(LastSegments[k])

\* "Keep this to yourself." is private through its indicator with both
\* scores 0 and both thresholds 1; "I think I feel" has no indicator and an
\* introspection score equal to the threshold 1, and is public.
C6_Witness ==
    /\ Classified
    /\ privacyConfig.introspectionThreshold = Rat(1, 1)
    /\ privacyConfig.sensitivityThreshold = Rat(1, 1)
    /\ LastSegments = <<Chars("Keep this to yourself."), Chars("I think I feel")>>
    /\ calculateIntrospectionScore(LastSegments[1]).n = 0
    /\ calculateSensitivityScore(LastSegments[1]).n = 0
    /\ RatEqual(calculateIntrospectionScore(LastSegments[2]),
                privacyConfig.introspectionThreshold)
    /\ ~MatchesIndicator(LastSegments[2])
    /\ lastAnalysis.privateThoughts = <<LastSegments[1]>>
    /\ lastAnalysis.publicOutput = LastSegments[2]

ContainsCustom(segment) ==
    \E j \in 1..Len(privacyConfig.customPatterns) :
        ContainsCI(segment, privacyConfig.customPatterns[j])
PrivateWithoutCustom(segment) ==
    \/ MatchesAnyPattern(DEFAULT_PRIVACY_INDICATORS, segment)
    \/ IntrospectionOver(segment)
    \/ SensitivityOver(segment)

\* C7: a custom pattern forces a segment private exactly when the segment
\* contains the pattern as a case-insensitive plain substring: a segment
\* that contains one is private, and a segment that nothing else makes
\* private is private only if it contains one.
C7_CustomPatternsLiteral ==
    Classified =>
        \A k \in 1..Len(LastSegments) :
            /\ ContainsCustom(LastSegments[k]) => IsPrivate(LastSegments[k])
            /\ (IsPrivate(LastSegments[k]) /\ ~PrivateWithoutCustom(LastSegments[k]))
                   => ContainsCustom(LastSegments[k])

\* With the custom pattern "a.c", the segment "abc" stays public and the
\* segment "a.c" is private.
C7_Witness ==
    /\ Classified
    /\ privacyConfig.customPatterns = <<Chars("a.c")>>
    /\ LastSegments = <<Chars("abc"), Chars("a.c")>>
    /\ lastAnalysis.publicOutput = Chars("abc")
    /\ lastAnalysis.privateThoughts = <<Chars("a.c")>>

\* A custom pattern read as a regular expression matches the segment.
MatchesAsRegex(pattern, segment) ==
    NewRegExp(pattern).ok /\ RegexTest(NewRegExp(pattern).re, segment)

\* C8: a segment that matches a customPatterns entry, the entry read as a
\* regular expression, is classified private.
C8_CustomPatternsAreRegex ==
    Classified =>
        \A k \in 1..Len(LastSegments) :
            (\E j \in 1..Len(privacyConfig.customPatterns) :
                MatchesAsRegex(privacyConfig.customPatterns[j], LastSegments[k]))
            => IsPrivate(LastSegments[k])

IsPrefix(p, s) == Len(p) <= Len(s) /\ SubSeq(s, 1, Len(p)) = p

\* The keys of the score samples of the response.
ResponseKeys ==
    {lastResponse.introspectionScoresSample[k].key :
        k \in 1..Len(lastResponse.introspectionScoresSample)} \cup
    {lastResponse.sensitivityScoresSample[k].key :
        k \in 1..Len(lastResponse.sensitivityScoresSample)}

\* C9: the analyze_privacy response holds no text of a segment classified
\* private: no key of its score samples starts with the text of one.
C9_NoPrivateTextInResponse ==
    (Classified /\ ~lastResponse.isError) =>
        \A j \in 1..Len(lastAnalysis.privateThoughts) :
            \A name \in ResponseKeys :
                ~IsPrefix(SliceTo(lastAnalysis.privateThoughts[j], ScoreKeyLen), name)

-----------------------------------------------------------------------------
(* Claims about the encryption key                                         *)

\* The runs of initialize() that returned without throwing.
Succeeded(i) == initLog[i].done /\ initLog[i].ok

\* C4: whenever initialize() returns successfully (one run at a time), the
\* manager's key has exactly the configured size and is the base64 decoding
\* of the key file's content, whether the file was absent, valid, or of the
\* wrong length and so replaced by a generated key.
C4_KeyPostcondition ==
    /\ \A m \in Managers :
          pc[m] = "ready" =>
              /\ Len(key[m]) = keySize
              /\ keyFile.exists
              /\ key[m] = KeyInFile(keyFile)
    /\ \A i \in 1..Len(initLog) :
          Succeeded(i) =>
              /\ Len(initLog[i].key) = keySize
              /\ initLog[i].after.exists
              /\ initLog[i].key = KeyInFile(initLog[i].after)
              /\ (initLog[i].generated <=>
                    ~(initLog[i].before.exists
                        /\ KeyValid(KeyInFile(initLog[i].before), keySize)))

\* A run replaced a key file of the wrong length by a generated key.
C4_Witness ==
    \E i \in 1..Len(initLog) :
        /\ Succeeded(i)
        /\ initLog[i].generated
        /\ initLog[i].before.exists
        /\ initLog[i].before.content # <<>>
        /\ pc[initLog[i].m] = "ready"

\* C5: two successive successful initialize() runs with the same
\* configuration and nothing else touching the key file end with identical
\* keys, the second never generates one, and a run that finds a valid key
\* file leaves its content unchanged.
C5_KeyPersists ==
    /\ \A i, j \in 1..Len(initLog) :
          (i < j /\ Succeeded(i) /\ Succeeded(j)) =>
              /\ initLog[i].key = initLog[j].key
              /\ ~initLog[j].generated
    /\ \A i \in 1..Len(initLog) :
          (/\ Succeeded(i)
           /\ initLog[i].before.exists
           /\ KeyValid(KeyInFile(initLog[i].before), keySize)) =>
              initLog[i].after = initLog[i].before

\* A second process started after the first had generated the key.
C5_Witness ==
    /\ Len(initLog) >= 2
    /\ Succeeded(1)
    /\ Succeeded(2)
    /\ initLog[1].generated
    /\ initLog[1].m # initLog[2].m

-----------------------------------------------------------------------------
(* Claims about encrypt and decrypt                                        *)

\* The last decrypt call was given a whole blob that encrypt returned under
\* the key the manager still holds.
DecryptedOwnBlob ==
    /\ lastDecrypt.called
    /\ lastDecrypt.intact
    /\ lastDecrypt.key = encLog[lastDecrypt.source].key

\* Whether decrypt's return value is the data x: the same text for a string,
\* the text whose UTF-8 encoding is x for a byte buffer.
SameData(x, text) ==
    IF x.kind = "string" THEN text = x.val ELSE Utf8Encode(text) = x.val

\* C2: with a fixed initialized key, decrypt(encrypt(x)) returns exactly x
\* for every string or arbitrary byte buffer x, the empty and the
\* multi-byte text included.
C2_RoundTrip ==
    DecryptedOwnBlob =>
        /\ lastDecrypt.result.ok
        /\ SameData(encLog[lastDecrypt.source].data, lastDecrypt.result.text)

\* C10 as stated: no two encrypt calls use the same IV, so two encryptions of
\* the same plaintext never return the same blob.
C10_IVNeverRepeats ==
    \A i, j \in 1..Len(encLog) :
        (i < j /\ encLog[i].result.ok /\ encLog[j].result.ok) =>
            /\ encLog[i].iv # encLog[j].iv
            /\ encLog[i].result.blob # encLog[j].result.blob

\* C10 as the code has it: every encrypt call draws a 16-byte IV from the
\* random source and returns it as the first 16 bytes of the blob, and two
\* encryptions of the same plaintext under the same key return the same blob
\* exactly when they drew the same IV.
C10_IVDrawnPerCall ==
    /\ \A i \in 1..Len(encLog) :
          encLog[i].result.ok =>
              /\ Len(encLog[i].iv) = IVLength
              /\ SubSeq(encLog[i].result.blob, 1, IVLength) = encLog[i].iv
    /\ \A i, j \in 1..Len(encLog) :
          (/\ encLog[i].result.ok
           /\ encLog[j].result.ok
           /\ encLog[i].key = encLog[j].key
           /\ encLog[i].data = encLog[j].data) =>
              (encLog[i].result.blob = encLog[j].result.blob
                  <=> encLog[i].iv = encLog[j].iv)

\* Two encryptions of one plaintext drew different IVs.
C10_Witness ==
    /\ Len(encLog) >= 2
    /\ encLog[1].result.ok
    /\ encLog[2].result.ok
    /\ encLog[1].iv # encLog[2].iv
    /\ encLog[1].result.blob # encLog[2].result.blob

-----------------------------------------------------------------------------
(* Claims about the storage manager                                        *)

Saved(i) == saveLog[i].ok

\* C3: under any sequence or interleaving of save calls every successful save
\* writes to a filename no earlier successful save used; so after N
\* successful saves into an empty store the store holds N files, and the
\* content a save wrote is never changed by a later save.
C3_FilenamesUsedOnce ==
    /\ \A i, j \in 1..Len(saveLog) :
          (i < j /\ Saved(i) /\ Saved(j)) =>
              saveLog[i].thought.filepath # saveLog[j].thought.filepath
    /\ SavesUnderWay = 0 =>
          Cardinality(DOMAIN files) = Cardinality({i \in 1..Len(saveLog) : Saved(i)})
    /\ \A i \in 1..Len(saveLog) :
          Saved(i) =>
              /\ saveLog[i].thought.filepath \in DOMAIN files
              /\ files[saveLog[i].thought.filepath].content = saveLog[i].data

-----------------------------------------------------------------------------
(* Claims about one manager's key over its life                            *)

\* C11: once initialize() has succeeded on a manager, the key the manager
\* holds is the one that call adopted, in every later state: after encrypt,
\* decrypt, getKeyInfo, further initialize() calls and changes made to the key
\* file from outside.
C11_KeyImmutable ==
    \A i \in 1..Len(initLog) :
        Succeeded(i) => key[initLog[i].m] = initLog[i].key

\* A finished run of initialize() that found the key file present but not
\* readable.
UnreadableRun(i) ==
    /\ initLog[i].done
    /\ initLog[i].before.exists
    /\ ~initLog[i].before.readable

NeverInitialized(m) ==
    \A i \in 1..Len(initLog) : initLog[i].m = m => ~Succeeded(i)

KeyNotInitialized == Failure("ENCRYPTION_KEY_NOT_INITIALIZED")

\* What such a run leaves behind.
C13_FailedRun ==
    \A i \in 1..Len(initLog) :
        UnreadableRun(i) =>
            /\ ~initLog[i].ok
            /\ initLog[i].code = "ENCRYPTION_INIT_FAILED"
            /\ ~initLog[i].generated
            /\ initLog[i].after = initLog[i].before
            /\ NeverInitialized(initLog[i].m) => key[initLog[i].m] = NoKey

\* The step in which it fails, and an encrypt call after it.
C13_FailingStep ==
    /\ \A m \in Managers :
          pc[m] = "access" /\ pc'[m] # "access" /\ AccessError(keyFile) = "EACCES" =>
              /\ pc'[m] = "failed"
              /\ keyFile' = keyFile
              /\ key' = key
              /\ newKey' = newKey
    /\ \A m \in Managers :
          /\ pc[m] = "failed"
          /\ NeverInitialized(m)
          /\ Len(encLog') > Len(encLog)
          /\ encLog'[Len(encLog')].m = m
          => encLog'[Len(encLog')].result = KeyNotInitialized

\* C13: when the key file exists but cannot be read (an error other than
\* not-found), initialize() fails with ENCRYPTION_INIT_FAILED, generates and
\* writes no key, leaves the key file as it was and does not initialize the
\* manager: on a manager that was never initialized the key stays empty and a
\* following encrypt fails with ENCRYPTION_KEY_NOT_INITIALIZED.
C13_FatalKeyReadFailure == []C13_FailedRun /\ [][C13_FailingStep]_vars

\* A first initialize() failed on the unreadable file and encrypt was then
\* called and refused.
C13_Witness ==
    /\ Len(initLog) = 1
    /\ UnreadableRun(1)
    /\ pc[Cipher] = "failed"
    /\ encLog # <<>>
    /\ encLog[1].inits = 1
    /\ encLog[1].result = KeyNotInitialized

-----------------------------------------------------------------------------
(* Claims about the blobs given to decrypt                                 *)

\* C14: encrypt and decrypt on a manager whose initialize() has not completed
\* successfully (never called, or failed) fail with
\* ENCRYPTION_KEY_NOT_INITIALIZED whatever they are given and return no data;
\* decrypt does so for blobs shorter than the IV too.
C14_KeyRequired ==
    /\ \A i \in 1..Len(encLog) :
          encLog[i].key = NoKey => encLog[i].result = KeyNotInitialized
    /\ lastDecrypt.called /\ lastDecrypt.key = NoKey =>
          lastDecrypt.result = KeyNotInitialized
    /\ NeverInitialized(Cipher) =>
          /\ key[Cipher] = NoKey
          /\ \A seed \in RandomSeeds :
                encrypt(key[Cipher], plain, RandomBytes(IVLength, seed)) = KeyNotInitialized
          /\ \A blob \in ForeignBlobs : decrypt(key[Cipher], blob) = KeyNotInitialized

\* initialize() failed, encrypt was refused after it, and so was decrypt of a
\* buffer shorter than the IV.
C14_Witness ==
    /\ pc[Cipher] = "failed"
    /\ encLog # <<>>
    /\ encLog[1].inits = 1
    /\ encLog[1].result = KeyNotInitialized
    /\ lastDecrypt.called
    /\ lastDecrypt.key = NoKey
    /\ lastDecrypt.length < IVLength
    /\ lastDecrypt.result = KeyNotInitialized

InvalidEncryptedData == Failure("ENCRYPTION_INVALID_ENCRYPTED_DATA")
DecryptionFailed == Failure("ENCRYPTION_DECRYPTION_FAILED")

\* C15: on a manager that holds a key, decrypt fails with
\* ENCRYPTION_INVALID_ENCRYPTED_DATA exactly when the blob has fewer than 16
\* bytes; a blob of 16 bytes or more either decrypts or fails with
\* ENCRYPTION_DECRYPTION_FAILED; and no blob decrypts unless its length is 16
\* plus a positive multiple of 16.
C15_MalformedBlob ==
    lastDecrypt.called /\ lastDecrypt.key # NoKey =>
        /\ lastDecrypt.result = InvalidEncryptedData <=> lastDecrypt.length < IVLength
        /\ lastDecrypt.length >= IVLength /\ ~lastDecrypt.result.ok =>
              lastDecrypt.result = DecryptionFailed
        /\ lastDecrypt.result.ok =>
              /\ lastDecrypt.length > IVLength
              /\ (lastDecrypt.length - IVLength) % BlockSize = 0

\* A manager holding a key was given a blob that is an IV and nothing else.
C15_Witness ==
    /\ lastDecrypt.called
    /\ Len(lastDecrypt.key) = CipherKeyLength
    /\ lastDecrypt.length = IVLength
    /\ lastDecrypt.result = DecryptionFailed

-----------------------------------------------------------------------------
(* Claims about the start of the server                                    *)

ComponentFailed ==
    \/ pc[Cipher] = "failed"
    \/ serverPc = "createStorageManager" /\ ~storageReady /\ EnsureFails

RequestServed == lastCall = "analyze_privacy"

\* The server is connected, or was.
Connected == serverPc = "running" \/ (serverPc = "exited" /\ exitStatus = 0)

C12_ConnectsAfterInit ==
    /\ Connected =>
          /\ detectorReady
          /\ pc[Cipher] = "ready"
          /\ key[Cipher] # NoKey
          /\ storageReady
          /\ privateDirExists
    /\ RequestServed => Connected
    /\ ComponentFailed => ~Connected /\ ~RequestServed
    /\ serverPc = "exited" /\ exitStatus = 1 => ~RequestServed

\* A process that has exited does nothing more.
C12_ExitIsFinal == serverPc = "exited" => UNCHANGED vars

\* C12: the server connects to its transport only after the privacy
\* detector, the key manager and the storage manager have all initialized;
\* when one of them fails, the process exits with status 1 and no request is
\* ever served.
C12_StartupOrdering ==
    /\ []C12_ConnectsAfterInit
    /\ ComponentFailed ~> (serverPc = "exited" /\ exitStatus = 1)
    /\ [][C12_ExitIsFinal]_vars

\* All three initialized, the server connected and served a request.
C12_Witness ==
    /\ serverPc = "running"
    /\ RequestServed
    /\ storageReady
    /\ pc[Cipher] = "ready"

\* The key manager failed and the process exited with status 1.
C12_WitnessFailed ==
    /\ pc[Cipher] = "failed"
    /\ serverPc = "exited"
    /\ exitStatus = 1

-----------------------------------------------------------------------------
(* Claims about the store and its listing                                  *)

\* The length of the AES-CBC ciphertext of n bytes: PKCS#7 pads to the next
\* whole block, a full block when n is a multiple already.
CiphertextLength(n) == ((n \div BlockSize) + 1) * BlockSize

\* One thought was encrypted and stored, into a store without thoughts, and
\* the store then listed, with nobody else touching the thought's file.
StoredOneAndListed ==
    /\ Len(encLog) = 1
    /\ Len(saveLog) = 1
    /\ saveLog[1].ok
    /\ lastList.called
    /\ lastList.intact
    /\ saveLog[1].thought.filepath \in DOMAIN lastList.seen

\* C16: starting from an empty store, store(encrypt(p)) followed by
\* listMetadata() returns exactly one record; its sizeBytes is 16 plus the
\* length of the ciphertext, which is the length of the whole blob, and its
\* id is the name of the file written without the .enc suffix.
C16_StoreThenList ==
    StoredOneAndListed =>
        /\ Len(lastList.records) = 1
        /\ lastList.records[1].sizeBytes
             = IVLength + CiphertextLength(Len(Utf8Encode(encLog[1].data.val)))
        /\ lastList.records[1].sizeBytes = Len(encLog[1].result.blob)
        /\ lastList.records[1].id \o Chars(".enc") = saveLog[1].thought.filepath
        /\ lastList.records[1].filepath = saveLog[1].thought.filepath

\* A thought of one full block of text, so of two blocks of ciphertext, was
\* stored and listed.
C16_Witness ==
    /\ StoredOneAndListed
    /\ Len(lastList.records) = 1
    /\ lastList.records[1].sizeBytes = IVLength + (2 * BlockSize)

\* The record the last listing holds for a path, if it holds one.
Listed(filepath) ==
    {lastList.records[j] : j \in {n \in 1..Len(lastList.records) :
                                     lastList.records[n].filepath = filepath}}

\* C17: for every successful save, the StoredThought it returned equals in
\* id, timestamp and sizeBytes the record a later listMetadata() derives for
\* the same path from the file's modification time and size, the file not
\* having been touched from outside.
C17_DerivationsAgree ==
    lastList.called =>
        \A i \in 1..Len(saveLog) :
            Saved(i) =>
                \A r \in Listed(saveLog[i].thought.filepath) :
                    /\ r.id = saveLog[i].thought.id
                    /\ r.timestamp = saveLog[i].thought.timestamp
                    /\ r.sizeBytes = saveLog[i].thought.sizeBytes

\* The timestamps of records.
TimestampsOf(records) == {records[i].timestamp : i \in 1..Len(records)}

RECURSIVE SumOfSizes(_)
SumOfSizes(records) ==
    IF records = <<>> THEN 0
    ELSE records[1].sizeBytes + SumOfSizes(Tail(records))

\* The statistics were asked for right after the listing, and no file went
\* away during either call: both saw the same store.
ListedAndCounted ==
    /\ lastList.called
    /\ lastList.intact
    /\ lastStats.called
    /\ lastStats.intact

\* C18: stats() equals the aggregate of the records listMetadata() returns
\* in the same state of the store: count is their number, totalSizeBytes the
\* sum of their sizes, oldestTimestamp the least and newestTimestamp the
\* greatest of their timestamps; without records (empty or missing
\* directory) all four are 0.
C18_StatsAggregate ==
    ListedAndCounted =>
        /\ lastStats.value.count = Len(lastList.records)
        /\ lastStats.value.totalSizeBytes = SumOfSizes(lastList.records)
        /\ lastList.records # <<>> =>
              /\ lastStats.value.oldestTimestamp \in TimestampsOf(lastList.records)
              /\ lastStats.value.newestTimestamp \in TimestampsOf(lastList.records)
              /\ \A t \in TimestampsOf(lastList.records) :
                    /\ lastStats.value.oldestTimestamp <= t
                    /\ t <= lastStats.value.newestTimestamp
        /\ lastList.records = <<>> =>
              /\ lastStats.value.count = 0
              /\ lastStats.value.totalSizeBytes = 0
              /\ lastStats.value.oldestTimestamp = 0
              /\ lastStats.value.newestTimestamp = 0

\* Two thoughts written at different times were listed and counted.
C18_Witness ==
    /\ ListedAndCounted
    /\ Len(lastList.records) = 2
    /\ lastStats.value.oldestTimestamp < lastStats.value.newestTimestamp

\* The statistics of a store whose directory is missing.
C18_WitnessAbsent ==
    /\ ListedAndCounted
    /\ ~privateDirExists
    /\ lastStats.value = NoStats

\* The names in a directory that end in .enc.
EncNames(dir) == {f \in DOMAIN dir : EndsWith(f, Chars(".enc"))}

PathsOf(records) == {records[i].filepath : i \in 1..Len(records)}

\* C19: listMetadata() returns one record for each file of the storage
\* directory whose name ends in .enc and whose stat succeeds (all of them
\* when no file goes away during the call, otherwise all but the one that
\* went), ordered newest first: of two consecutive records the earlier has
\* the greater or the same timestamp.
C19_ListingOrder ==
    lastList.called =>
        /\ \A i, j \in 1..Len(lastList.records) :
              i # j => lastList.records[i].filepath # lastList.records[j].filepath
        /\ PathsOf(lastList.records) \subseteq EncNames(lastList.seen)
        /\ lastList.intact => PathsOf(lastList.records) = EncNames(lastList.seen)
        /\ Cardinality(EncNames(lastList.seen) \ PathsOf(lastList.records)) <= 1
        /\ \A i \in 1..Len(lastList.records) :
              LET r == lastList.records[i]
              IN  /\ r.timestamp = lastList.seen[r.filepath].mtimeMs
                  /\ r.sizeBytes = Len(lastList.seen[r.filepath].content)
                  /\ r.id \o Chars(".enc") = r.filepath
        /\ \A i \in 1..(Len(lastList.records) - 1) :
              lastList.records[i].timestamp >= lastList.records[i + 1].timestamp

\* Two thoughts written at different times were listed, beside a file that
\* is not a thought.
C19_Witness ==
    /\ lastList.called
    /\ lastList.intact
    /\ OtherFile \in DOMAIN lastList.seen
    /\ Len(lastList.records) = 2
    /\ lastList.records[1].timestamp > lastList.records[2].timestamp

\* A thought went away between readdir and its stat: the other is listed.
C19_WitnessStatFailed ==
    /\ lastList.called
    /\ ~lastList.intact
    /\ Cardinality(EncNames(lastList.seen)) = 2
    /\ Len(lastList.records) = 1

\* Every save of data that settled, the directory not having been removed
\* while it ran, succeeded: whether or not the directory was there when it
\* was called.
C20_SaveSucceeds ==
    \A i \in 1..Len(saveLog) :
        saveLog[i].data # <<>> /\ ~saveLog[i].disturbed => saveLog[i].ok

\* The steps of a save: the directory is there once ensurePrivateDirectory()
\* has settled, and the file is there with the data once writeFile has.
C20_SaveSteps ==
    \A c \in Savers :
        /\ saving[c].pc = "ensure" /\ saving'[c].pc = "writeFile" => privateDirExists'
        /\ saving[c].pc = "writeFile" /\ saving'[c].pc = "written" =>
              /\ saving[c].filename \in DOMAIN files'
              /\ files'[saving[c].filename].content = saving[c].data

\* C20: when the storage directory is removed from outside between two save
\* calls, the later save creates it again and writes its file; no save
\* relies on the directory having been there at initialization or at an
\* earlier save.
C20_DirectoryReEnsured == []C20_SaveSucceeds /\ [][C20_SaveSteps]_vars

\* A save succeeded, the directory was removed, and the next save, called
\* without the directory, succeeded too and left its file there.
C20_Witness ==
    /\ Len(saveLog) = 2
    /\ saveLog[1].ok
    /\ saveLog[1].dirAtCall
    /\ ~saveLog[2].dirAtCall
    /\ saveLog[2].ok
    /\ privateDirExists
    /\ saveLog[2].thought.filepath \in DOMAIN files

\* ---------------------------------------------------------------------------
\* C21: saveEncryptedThought of a zero-length buffer.

\* Every finished save of the empty buffer failed with STORAGE_EMPTY_DATA and
\* returned no thought.
C21_Rejected ==
    \A i \in 1..Len(saveLog) :
        saveLog[i].data = <<>> =>
            /\ ~saveLog[i].ok
            /\ saveLog[i].code = "STORAGE_EMPTY_DATA"
            /\ saveLog[i].thought = NoThought

\* The step in which a save of the empty buffer returns leaves the directory
\* and its files as they were, and no write is left under way.
C21_NoEffect ==
    (/\ Len(saveLog') = Len(saveLog) + 1
     /\ saveLog'[Len(saveLog')].data = <<>>)
        => /\ files' = files
           /\ privateDirExists' = privateDirExists
           /\ saving' = saving

\* C21: a save of a zero-length blob fails with STORAGE_EMPTY_DATA and leaves
\* the filesystem unchanged: no file is written and the storage directory is
\* not created if it was missing.
C21_EmptyBlobRejected == []C21_Rejected /\ [][C21_NoEffect]_vars

\* The empty buffer was refused while the directory was missing, and the
\* directory is still missing.
C21_Witness ==
    /\ ~privateDirExists
    /\ files = NoFiles
    /\ \E i \in 1..Len(saveLog) :
          /\ saveLog[i].data = <<>>
          /\ saveLog[i].code = "STORAGE_EMPTY_DATA"
          /\ ~saveLog[i].dirAtCall

\* ---------------------------------------------------------------------------
\* C22: the two outputs of processOutput partition the segments.

\* The segments whose label is want, in the order of segments.
RECURSIVE Labelled(_, _, _)
Labelled(segments, label, want) ==
    IF segments = <<>> THEN <<>>
    ELSE (IF label[1] = want THEN <<Head(segments)>> ELSE <<>>)
         \o Labelled(Tail(segments), Tail(label), want)

\* The ways to call each of n segments private (TRUE) or public (FALSE).
Labellings(n) == [1..n -> BOOLEAN]

\* C22: every segment produced by splitIntoSegments goes to exactly one of
\* the two outputs: privateThoughts lists the private segments in source
\* order and publicOutput is the public segments joined by single spaces in
\* source order, so that no segment is lost, duplicated or reordered and no
\* private segment contributes to publicOutput.
C22_Partition ==
    Classified =>
        \E label \in Labellings(Len(LastSegments)) :
            /\ lastAnalysis.privateThoughts = Labelled(LastSegments, label, TRUE)
            /\ lastAnalysis.publicOutput =
                   JoinWith(Labelled(LastSegments, label, FALSE), <<" ">>)

\* A text of a public paragraph followed by a private one.
C22_Witness ==
    /\ Classified
    /\ LastSegments = <<Chars("abc"), Chars("Keep this to yourself.")>>
    /\ lastAnalysis.privateThoughts = <<Chars("Keep this to yourself.")>>
    /\ lastAnalysis.publicOutput = Chars("abc")

\* ---------------------------------------------------------------------------
\* The segmenter on paragraphs around the 500-character limit.

RECURSIVE Repeat(_, _)
Repeat(s, n) == IF n = 0 THEN <<>> ELSE s \o Repeat(s, n - 1)

\* Two sentences, a word of 480 characters and an ending that brings the
\* paragraph to exactly LongSegmentLimit characters, or to one more.
LongWord == Repeat(Chars("0123456789"), 48)
ParagraphAtLimit == Chars("Wait. Not now! ") \o LongWord \o Chars(" end?")
ParagraphOverLimit == Chars("Wait. Not now! ") \o LongWord \o Chars(" end?!")

SegmentParagraphs == {
    <<>>,
    Chars("  "),
    Chars("abc"),
    Chars("Wait. Keep this to yourself!  "),
    ParagraphAtLimit,
    Chars(" ") \o ParagraphAtLimit \o Chars("  "),
    ParagraphOverLimit
}

\* One paragraph, or two with a blank line between them.
SegmentTexts ==
    SegmentParagraphs \cup
    {p \o BlankLine \o q : p \in SegmentParagraphs, q \in SegmentParagraphs}

\* A configuration under which every segment is private (no score is below
\* 0), so that privateThoughts is the list of segments.
AllPrivateConfig ==
    [introspectionThreshold |-> Rat(0 - 1, 1),
     sensitivityThreshold |-> DefaultSensitivityThreshold,
     customPatterns |-> <<>>]

SegmentInit ==
    /\ privacyConfig = AllPrivateConfig
    /\ request \in SegmentTexts
    /\ privacyPatterns = <<>>
    /\ detectorReady = FALSE
    /\ lastCall = "none"
    /\ lastText = <<>>
    /\ lastAnalysis = NoAnalysis
    /\ lastResponse = NoResponse
    /\ patternLastIndex = <<>>
    /\ classifyLog = <<>>
    /\ KeyIdle
    /\ CipherIdle
    /\ StorageIdle
    /\ ReadIdle
    /\ ServerIdle

SegmentSpec == SegmentInit /\ [][PrivacyNext]_vars

\* ---------------------------------------------------------------------------
\* C23: what splitIntoSegments returns, paragraph by paragraph.

\* processOutput has run under AllPrivateConfig: privateThoughts is the
\* list of segments.
Segmented == Classified /\ privacyConfig = AllPrivateConfig

\* The paragraphs of the text: its pieces between blank-line boundaries.
Paragraphs == RegexSplit(ParagraphBreak, lastText)

\* The positions of p that hold '.', '!' or '?' and are followed by
\* whitespace.
SentenceEnds(p) ==
    {i \in 1..(Len(p) - 1) : p[i] \in {".", "!", "?"} /\ IsSpace(p[i + 1])}

\* p cut after each of the positions in ends, from position from on.
RECURSIVE CutAfter(_, _, _)
CutAfter(p, ends, from) ==
    IF {i \in ends : i >= from} = {} THEN <<SubSeq(p, from, Len(p))>>
    ELSE \* the first end at or after from
         CHOOSE pieces \in
           {<<SubSeq(p, from, i)>> \o CutAfter(p, ends, i + 1) :
              i \in {SetMin({j \in ends : j >= from})}} : TRUE

\* Every piece trimmed, the empty ones left out.
RECURSIVE TrimmedNonEmpty(_)
TrimmedNonEmpty(pieces) ==
    IF pieces = <<>> THEN <<>>
    ELSE (IF \A k \in 1..Len(Head(pieces)) : IsSpace(Head(pieces)[k])
          THEN <<>> ELSE <<Trim(Head(pieces))>>)
         \o TrimmedNonEmpty(Tail(pieces))

Sentences(p) == TrimmedNonEmpty(CutAfter(p, SentenceEnds(p), 1))

IsLong(p) == Len(Trim(p)) > LongSegmentLimit
IsBlank(p) == Len(Trim(p)) = 0

RECURSIVE Flatten(_)
Flatten(lists) == IF lists = <<>> THEN <<>> ELSE Head(lists) \o Flatten(Tail(lists))

IsTrimmed(s) == s # <<>> /\ ~IsSpace(s[1]) /\ ~IsSpace(s[Len(s)])

\* The claim as stated: every paragraph of at most 500 characters after
\* trimming, a blank one included, yields exactly one segment.
C23_OnePerShortParagraph ==
    Segmented =>
        lastAnalysis.privateThoughts =
            Flatten([k \in 1..Len(Paragraphs) |->
                       IF IsLong(Paragraphs[k]) THEN Sentences(Paragraphs[k])
                       ELSE <<Trim(Paragraphs[k])>>])

\* C23 (amended): the segmenter splits the text at blank-line boundaries
\* into paragraphs; a paragraph whose trimmed length is between 1 and 500
\* characters yields exactly one segment, a blank paragraph yields none,
\* and a paragraph whose trimmed length exceeds 500 is split after each
\* '.', '!' or '?' that is followed by whitespace; every resulting segment
\* is trimmed and non-empty, and segments are in source order.
C23_Segmentation ==
    Segmented =>
        /\ lastAnalysis.privateThoughts =
             Flatten([k \in 1..Len(Paragraphs) |->
                        IF IsLong(Paragraphs[k]) THEN Sentences(Paragraphs[k])
                        ELSE IF IsBlank(Paragraphs[k]) THEN <<>>
                        ELSE <<Trim(Paragraphs[k])>>])
        /\ \A k \in 1..Len(lastAnalysis.privateThoughts) :
              IsTrimmed(lastAnalysis.privateThoughts[k])

\* A paragraph of exactly 500 characters with sentence ends in it stays one
\* segment, and the paragraph of 501 characters after it is cut into its
\* three sentences.
C23_Witness ==
    /\ Segmented
    /\ lastText = ParagraphAtLimit \o BlankLine \o ParagraphOverLimit
    /\ Len(ParagraphAtLimit) = LongSegmentLimit
    /\ lastAnalysis.privateThoughts =
          <<ParagraphAtLimit, Chars("Wait."), Chars("Not now!"),
            LongWord \o Chars(" end?!")>>

\* ---------------------------------------------------------------------------
\* The two scorers on texts of every kind, texts without a token included.

ZeroTokenTexts == {<<>>, Chars(" "), <<" ", "\n", " ">>}

ScoreTexts == Texts \cup ZeroTokenTexts

ScoreInit ==
    /\ privacyConfig = [introspectionThreshold |-> DefaultIntrospectionThreshold,
                        sensitivityThreshold |-> DefaultSensitivityThreshold,
                        customPatterns |-> <<>>]
    /\ request \in ScoreTexts
    /\ privacyPatterns = <<>>
    /\ detectorReady = FALSE
    /\ lastCall = "none"
    /\ lastText = <<>>
    /\ lastAnalysis = NoAnalysis
    /\ lastResponse = NoResponse
    /\ patternLastIndex = <<>>
    /\ classifyLog = <<>>
    /\ KeyIdle
    /\ CipherIdle
    /\ StorageIdle
    /\ ReadIdle
    /\ ServerIdle

\* calculateIntrospectionScore and calculateSensitivityScore applied to one
\* text, the two scores stored under the text's key as processOutput's
\* loop stores them.
ScoreText ==
    /\ lastCall = "none"
    /\ lastCall' = "score"
    /\ lastText' = request
    /\ \E i \in {calculateIntrospectionScore(request)},
          s \in {calculateSensitivityScore(request)} :
          lastAnalysis' =
             [NoAnalysis EXCEPT !.scores =
                [introspectionScores |-> SetKey(<<>>, ScoreKey(request), i),
                 sensitivityScores |-> SetKey(<<>>, ScoreKey(request), s)]]
    /\ UNCHANGED <<privacyConfig, privacyPatterns, detectorReady, request, lastResponse,
                   patternLastIndex, classifyLog>>
    /\ UNCHANGED <<keyVars, cipherVars, storageVars, readVars, serverVars>>

ScoreSpec == ScoreInit /\ [][ScoreText]_vars

\* ---------------------------------------------------------------------------
\* C24: the range of the two scores.

Scored == lastCall = "score"
IntrospectionScored == lastAnalysis.scores.introspectionScores[1].value
SensitivityScored == lastAnalysis.scores.sensitivityScores[1].value

\* A fraction n/d with a positive denominator that lies in [0, 1].
InUnitInterval(score) == score.d > 0 /\ 0 <= score.n /\ score.n <= score.d

\* No character of the text is outside whitespace.
ZeroTokens(text) == \A k \in 1..Len(text) : IsSpace(text[k])

\* C24: for every text both the introspection score and the sensitivity
\* score lie in [0, 1], and for a text with zero tokens (empty or
\* whitespace-only) both scores are exactly 0, as numbers and not as errors.
C24_ScoreRange ==
    Scored =>
        /\ InUnitInterval(IntrospectionScored)
        /\ InUnitInterval(SensitivityScored)
        /\ ZeroTokens(lastText) =>
              /\ IntrospectionScored.n = 0
              /\ SensitivityScored.n = 0

\* "I think I feel" has four introspection hits in four words, 4 / 1.2
\* before the cap, and scores exactly 1.
C24_Witness ==
    /\ Scored
    /\ lastText = Chars("I think I feel")
    /\ CountMatches(FirstPersonRe, lastText) + CountMatches(ThinkingVerbsRe, lastText) = 4
    /\ WordCount(lastText) = 4
    /\ RatEqual(IntrospectionScored, Rat(1, 1))

\* ---------------------------------------------------------------------------
\* One detector serving several analyze_privacy calls.

\* How many calls a detector serves.
MaxClassify == 3

DeterminismTexts == {
    Chars("Keep this to yourself."),
    Chars("abc"),
    Chars("abc") \o BlankLine \o Chars("This is private, and so private."),
    Chars("I think I feel") \o BlankLine \o Chars("code red")
}

DeterminismConfigs == {
    [introspectionThreshold |-> DefaultIntrospectionThreshold,
     sensitivityThreshold |-> DefaultSensitivityThreshold,
     customPatterns |-> cp] : cp \in {<<>>, <<Chars("code red")>>}
}

DeterminismInit ==
    /\ privacyConfig \in DeterminismConfigs
    /\ request = <<>>
    /\ privacyPatterns = <<>>
    /\ detectorReady = FALSE
    /\ lastCall = "none"
    /\ lastText = <<>>
    /\ lastAnalysis = NoAnalysis
    /\ lastResponse = NoResponse
    /\ patternLastIndex = <<>>
    /\ classifyLog = <<>>
    /\ KeyIdle
    /\ CipherIdle
    /\ StorageIdle
    /\ ReadIdle
    /\ ServerIdle

DeterminismNext ==
    \/ DetectorInitialize
    \/ \E text \in DeterminismTexts :
          /\ Len(classifyLog) < MaxClassify
          /\ AnalyzePrivacy(text)

DeterminismSpec == DeterminismInit /\ [][DeterminismNext]_vars

\* ---------------------------------------------------------------------------
\* C25: processOutput is deterministic.

\* C25: two processOutput calls of one detector (one configuration) with the
\* same text return the same publicOutput and privateThoughts, whatever
\* calls were made before or between them; no RegExp of the detector keeps
\* a position from one call to the next.
C25_Deterministic ==
    /\ \A i \in 1..Len(classifyLog) : \A j \in 1..Len(classifyLog) :
          classifyLog[i].text = classifyLog[j].text =>
              /\ classifyLog[i].publicOutput = classifyLog[j].publicOutput
              /\ classifyLog[i].privateThoughts = classifyLog[j].privateThoughts
    /\ \A k \in 1..Len(patternLastIndex) : patternLastIndex[k] = 0

\* The same text with a private segment was classified first and third,
\* another text in between, with the same result both times.
C25_Witness ==
    /\ Len(classifyLog) = 3
    /\ classifyLog[1].text = Chars("Keep this to yourself.")
    /\ classifyLog[2].text # classifyLog[1].text
    /\ classifyLog[2].privateThoughts # <<>>
    /\ classifyLog[3] = classifyLog[1]
    /\ classifyLog[1].privateThoughts = <<Chars("Keep this to yourself.")>>

\* ---------------------------------------------------------------------------
\* The process_response tool: classify, then encrypt and save each private
\* thought in turn.

\* The characters U+0020..U+005A and U+0061..U+007A in order; CharCode is
\* the code point of a character of a JavaScript string, as encrypt hands
\* it to Buffer.from(data, 'utf-8').
PrintableTo90 == Chars(" !\"#$%&'()*+,-./0123456789:;<=>?@ABCDEFGHIJKLMNOPQRSTUVWXYZ")
PrintableFrom97 == Chars("abcdefghijklmnopqrstuvwxyz")
CharCode(c) ==
    IF c = "\n" THEN 10
    ELSE IF \E i \in 1..Len(PrintableFrom97) : PrintableFrom97[i] = c
         THEN 96 + (CHOOSE i \in 1..Len(PrintableFrom97) : PrintableFrom97[i] = c)
    ELSE 31 + (CHOOSE i \in 1..Len(PrintableTo90) : PrintableTo90[i] = c)
StringData(text) == [kind |-> "string", val |-> [i \in 1..Len(text) |-> CharCode(text[i])]]

\* The texts given to process_response: without a text, without a private
\* segment, with one, with two different ones and with the same one twice.
ResponseTexts == {
    <<>>,
    Chars("abc"),
    Chars("abc") \o BlankLine \o Chars("Keep this to yourself."),
    Chars("Keep this to yourself.") \o BlankLine \o Chars("abc")
        \o BlankLine \o Chars("my secret"),
    Chars("my secret") \o BlankLine \o Chars("my secret")
}

\* The components as createCoreComponents returns them: the detector with
\* its patterns, the key of the configured size loaded from its file, the
\* private directory there and empty.
ResponseInit ==
    /\ privacyConfig = [introspectionThreshold |-> DefaultIntrospectionThreshold,
                        sensitivityThreshold |-> DefaultSensitivityThreshold,
                        customPatterns |-> <<>>]
    /\ request \in ResponseTexts
    /\ privacyPatterns = DEFAULT_PRIVACY_INDICATORS
    /\ patternLastIndex = [k \in 1..Len(DEFAULT_PRIVACY_INDICATORS) |-> 0]
    /\ detectorReady = TRUE
    /\ lastCall = "initialize"
    /\ lastText = <<>>
    /\ lastAnalysis = NoAnalysis
    /\ lastResponse = NoResponse
    /\ classifyLog = <<>>
    /\ keySize \in KeySizes
    /\ keyFile = FileWith(KeyFileText(RandomBytes(keySize, NumRandom + 1)))
    /\ pc = [m \in Managers |-> IF m = Cipher THEN "ready" ELSE "new"]
    /\ key = [m \in Managers |-> IF m = Cipher THEN KeyInFile(keyFile) ELSE NoKey]
    /\ newKey = [m \in Managers |-> NoKey]
    /\ initLog = <<[m |-> Cipher, done |-> TRUE, ok |-> TRUE, code |-> "",
                    key |-> KeyInFile(keyFile), generated |-> FALSE,
                    before |-> keyFile, after |-> keyFile]>>
    /\ plain = NoData
    /\ encLog = <<>>
    /\ lastDecrypt = NoDecrypt
    /\ lastKeyInfo = NoKeyInfo
    /\ now = 0
    /\ baseWritable = TRUE
    /\ diskFull = FALSE
    /\ privateDirExists = TRUE
    /\ files = NoFiles
    /\ storageReady = TRUE
    /\ saving = [c \in Savers |-> NotSaving]
    /\ saveLog = <<>>
    /\ ReadIdle
    /\ ServerIdle

\* The ToolResult of handleProcessResponse's last statement.
processResponseResult(publicOutput, privateThoughts, storedThoughts) ==
    [isError |-> FALSE,
     publicOutput |-> publicOutput,
     privateThoughtsCount |-> Len(privateThoughts),
     storedThoughts |-> storedThoughts]

\* A catch block that returns what the call has so far.
ProcessCutShort(code) ==
    [processing EXCEPT
       !.pc = "done",
       !.response = processResponseResult(processing.publicOutput,
                                          processing.privateThoughts,
                                          processing.storedThoughts)]

\* The ToolResult of its catch block; the error's message is stood for by
\* the error's code.
ProcessFailed(code) ==
    [processing EXCEPT !.pc = "done", !.response = ErrorResponse(code)]

\* handleProcessResponse is called with args.response = request: an empty
\* text is refused, any other is classified.
ProcessResponseCall ==
    /\ processing.pc = "idle"
    /\ detectorReady
    /\ IF request = <<>>
       THEN /\ processing' = ProcessFailed("Missing required parameter: response")
            /\ UNCHANGED <<patternLastIndex, classifyLog>>
       ELSE \E out \in {processOutput(privacyPatterns, patternLastIndex,
                                       privacyConfig, request)} :
              /\ processing' =
                   [processing EXCEPT
                      !.pc = IF out.result.privateThoughts = <<>> THEN "return"
                             ELSE "encrypt",
                      !.publicOutput = out.result.publicOutput,
                      !.privateThoughts = out.result.privateThoughts]
              /\ patternLastIndex' = out.lastIndex
              /\ classifyLog' = Append(classifyLog,
                    [text |-> request,
                     publicOutput |-> out.result.publicOutput,
                     privateThoughts |-> out.result.privateThoughts])
    /\ UNCHANGED <<privacyConfig, privacyPatterns, detectorReady, request, lastCall,
                   lastText, lastAnalysis, lastResponse>>
    /\ UNCHANGED <<serverPc, exitStatus>>
    /\ UNCHANGED <<keyVars, cipherVars, storageVars, readVars>>

\* The loop's encrypt(thought) for the next private thought settles.
ProcessEncrypt ==
    /\ processing.pc = "encrypt"
    /\ EncryptData(Cipher,
          StringData(processing.privateThoughts[Len(processing.storedThoughts) + 1]))
    /\ \E r \in {encLog'[Len(encLog')].result} :
          processing' = IF r.ok
                        THEN [processing EXCEPT !.pc = "save", !.encryptedData = r.blob]
                        ELSE ProcessFailed(r.code)
    /\ UNCHANGED <<serverPc, exitStatus>>
    /\ UNCHANGED <<keyVars, privacyVars, storageVars, readVars>>

\* The loop's saveEncryptedThought(encryptedData) is called.
ProcessSave ==
    /\ processing.pc = "save"
    /\ Len(saveLog) = Len(processing.storedThoughts)
    /\ SaveCall(Client, processing.encryptedData)

\* saveEncryptedThought has settled: its record is pushed and the loop goes
\* on, or its error ends the call.
ProcessSaved ==
    /\ processing.pc = "save"
    /\ saving[Client].pc = "idle"
    /\ Len(saveLog) = Len(processing.storedThoughts) + 1
    /\ \E r \in {saveLog[Len(saveLog)]} :
          processing' =
             IF ~r.ok THEN ProcessFailed(r.code)
             ELSE [processing EXCEPT
                     !.storedThoughts = Append(@, r.thought),
                     !.pc = IF Len(saveLog) = Len(processing.privateThoughts)
                            THEN "return" ELSE "encrypt"]
    /\ UNCHANGED <<serverPc, exitStatus>>
    /\ UNCHANGED <<keyVars, cipherVars, privacyVars, storageVars, readVars>>

\* The loop is over: the result is returned.
ProcessReturn ==
    /\ processing.pc = "return"
    /\ processing' =
         [processing EXCEPT
            !.pc = "done",
            !.response = processResponseResult(processing.publicOutput,
                                               processing.privateThoughts,
                                               processing.storedThoughts)]
    /\ UNCHANGED <<serverPc, exitStatus>>
    /\ UNCHANGED <<keyVars, cipherVars, privacyVars, storageVars, readVars>>

\* The disk fills up.
DiskFills ==
    /\ ~diskFull
    /\ diskFull' = TRUE
    /\ UNCHANGED <<now, baseWritable, privateDirExists, files, storageReady, saving,
                   saveLog>>
    /\ UNCHANGED <<keyVars, cipherVars, privacyVars, readVars, serverVars>>

\* The call is under way.
Processing == processing.pc \notin {"idle", "done"}

ResponseNext ==
    \/ ProcessResponseCall
    \/ ProcessEncrypt
    \/ ProcessSave
    \/ EnsureDone(Client)
    \/ WriteDone(Client)
    \/ SaveReturn(Client)
    \/ ProcessSaved
    \/ ProcessReturn
    \/ Processing /\ Tick
    \/ Processing /\ DiskFills

ResponseSpec == ResponseInit /\ [][ResponseNext]_vars

\* ---------------------------------------------------------------------------
\* C26: what process_response leaves in the store.

Responded == processing.pc = "done" /\ ~processing.response.isError

\* The file at filepath holds a blob that the manager's key decrypts to text.
HoldsThought(filepath, text) ==
    /\ filepath \in DOMAIN files
    /\ \E out \in {decrypt(key[Cipher], files[filepath].content)} :
          out.ok /\ out.text = StringData(text).val

\* C26: whenever process_response returns successfully for a response with
\* k >= 1 private segments, several of them processed within the same clock
\* second included, the store afterwards contains k files created by that
\* call, one per private segment, and the i-th returned record's filepath
\* holds a blob that decrypts to the i-th private segment.
C26_StoresEveryThought ==
    (Responded /\ processing.privateThoughts # <<>>) =>
        /\ Len(processing.response.storedThoughts) = Len(processing.privateThoughts)
        /\ Cardinality(DOMAIN files) = Len(processing.privateThoughts)
        /\ \A i \in 1..Len(processing.privateThoughts) :
              HoldsThought(processing.response.storedThoughts[i].filepath,
                           processing.privateThoughts[i])

\* ---------------------------------------------------------------------------
\* C27: equal timestamps in a listing.

\* A listing of a store that holds what the saves wrote and nothing was
\* taken from during the call.
ListedSaves ==
    /\ lastList.called
    /\ lastList.intact
    /\ \A i \in 1..Len(lastList.records) :
          \E n \in 1..Len(saveLog) :
              saveLog[n].ok /\ saveLog[n].thought.filepath = lastList.records[i].filepath

\* The claim as stated: no two returned entries have equal timestamps.
C27_StrictOrder ==
    ListedSaves =>
        \A i, j \in 1..Len(lastList.records) :
            i < j => lastList.records[i].timestamp > lastList.records[j].timestamp

\* C27 (amended): for a store populated only by save calls, listMetadata()
\* returns entries sorted by descending timestamp, and two returned entries
\* may have equal timestamps: no entry has a smaller timestamp than an
\* entry after it.
C27_DescendingOrder ==
    ListedSaves =>
        \A i, j \in 1..Len(lastList.records) :
            i < j => lastList.records[i].timestamp >= lastList.records[j].timestamp

\* Two saves, the first written in the millisecond in which the second was
\* named and written: two files, one timestamp.
C27_Witness ==
    /\ ListedSaves
    /\ Len(lastList.records) = 2
    /\ lastList.records[1].filepath # lastList.records[2].filepath
    /\ lastList.records[1].timestamp = lastList.records[2].timestamp

\* ---------------------------------------------------------------------------
\* C28: a failure in the loop of process_response.

\* The call is over and its last encrypt or its last save failed.
EncryptFailed ==
    /\ Len(encLog) > Len(saveLog)
    /\ ~encLog[Len(encLog)].result.ok
SaveFailed ==
    /\ saveLog # <<>>
    /\ ~saveLog[Len(saveLog)].ok
FailedInLoop == processing.pc = "done" /\ (EncryptFailed \/ SaveFailed)

\* The segments stored before the failure.
StoredBefore == Len(processing.storedThoughts)

AfterInitialize(i) ==
    /\ encLog[i].inits >= 1
    /\ initLog[encLog[i].inits].done
    /\ initLog[encLog[i].inits].ok

\* C29: for every configured key size for which initialize() returns
\* successfully, every subsequent encrypt(plaintext) call on that manager
\* succeeds and returns a blob.
C29_UsableKey ==
    \A i \in 1..Len(encLog) :
        AfterInitialize(i) => encLog[i].result.ok

\* The same for the default key size alone.
C29_UsableDefaultKey ==
    keySize = DefaultKeySize => C29_UsableKey

\* ---------------------------------------------------------------------------
(* Two managers whose initialize() runs overlap on one key file            *)

\* The key file the two runs find: absent, or holding a key of another length.
OverlapKeyFiles ==
    {AbsentFile, FileWith(KeyFileText(RandomBytes(DefaultKeySize \div 2, NumRandom + 1)))}

\* The texts the managers encrypt for each other.
OverlapData == {[kind |-> "string", val |-> <<97>>], [kind |-> "string", val |-> BlockOfText]}

OverlapInit ==
    /\ keySize = DefaultKeySize
    /\ keyFile \in OverlapKeyFiles
    /\ pc = [m \in Managers |-> "new"]
    /\ key = [m \in Managers |-> NoKey]
    /\ newKey = [m \in Managers |-> NoKey]
    /\ initLog = <<>>
    /\ plain \in OverlapData
    /\ encLog = <<>>
    /\ lastDecrypt = NoDecrypt
    /\ lastKeyInfo = NoKeyInfo
    /\ PrivacyIdle
    /\ StorageIdle
    /\ ReadIdle
    /\ ServerIdle

\* Both runs of initialize() have returned successfully.
BothCompleted == \A m \in Managers : pc[m] = "ready"

\* createEncryptionManager is called once for each manager, nothing orders
\* the steps of the two runs; once both have returned, either manager
\* encrypts and either decrypts.
OverlapNext ==
    \E m \in Managers :
        \/ pc[m] = "new" /\ StartInitialize(m)
        \/ AccessDone(m)
        \/ ReadFileDone(m)
        \/ WriteFileDone(m)
        \/ BothCompleted /\ encLog = <<>> /\ Encrypt(m)
        \/ BothCompleted /\ Decrypt(m)

OverlapSpec == OverlapInit /\ [][OverlapNext]_vars

\* The last decrypt call was given a whole blob that the other manager's
\* encrypt returned.
DecryptedOthersBlob ==
    /\ lastDecrypt.called
    /\ lastDecrypt.intact
    /\ lastDecrypt.m # encLog[lastDecrypt.source].m

\* C30: if two initialize() runs against the same absent or wrong-length key
\* file overlap, then once both have completed both hold the same key, that
\* key equals the decoded content of the key file, and a blob encrypted by
\* either is decoded by the other.
C30_SameKeyAfterOverlap ==
    BothCompleted =>
        /\ \A m, n \in Managers : key[m] = key[n]
        /\ \A m \in Managers : key[m] = KeyInFile(keyFile)
        /\ DecryptedOthersBlob =>
              /\ lastDecrypt.result.ok
              /\ SameData(encLog[lastDecrypt.source].data, lastDecrypt.result.text)

\* The same for two runs of which the second starts after the first returned.
C30_SameKeyInSequence ==
    (BothCompleted /\ initLog[1].done /\ initLog[2].before = initLog[1].after)
        => C30_SameKeyAfterOverlap

====
